---- MODULE Spec2Model ----
(***************************************************************************)
(* Model of syld's project identity resolution and enrichment:            *)
(*   - URL normalisation and the grouping of installed packages by        *)
(*     upstream project (src/src/report/terminal.rs);                      *)
(*   - merge_enrichment, the backends and enrich_packages                  *)
(*     (src/src/enrich);                                                   *)
(*   - the enrichment cache and table projects (src/src/storage.rs).       *)
(* Each component has its own specification; the others' variables stay    *)
(* at rest in its behaviours.                                              *)
(*                                                                         *)
(* Strings are sequences of ASCII codes, so that byte-wise comparison,     *)
(* prefix stripping and lower-casing are computed, not assumed.            *)
(*   32 ' '   46 '.'   47 '/'   58 ':'   65..90 'A'..'Z'   97..122 'a'..'z' *)
(***************************************************************************)
EXTENDS Integers, Sequences, FiniteSets, TLC

VARIABLES
    nIn,        \* normalize_url: the raw url handed to the first call
    nVar,       \* normalize_url: a url that differs from nIn only in letter case
    nOut,       \* results of normalize_url applied repeatedly, starting from nIn
    nVarOut,    \* result of normalize_url(nVar), as an Option (<<>> or <<s>>)
    packages,   \* group_by_project: the input slice; each package is [url |-> Option]
    gState,     \* "input" before the call, "returned" after it
    groups,     \* group_by_project: the returned Vec<ProjectGroup>
    mBase,      \* merge_enrichment: the argument base
    mContrib,   \* merge_enrichment: the argument enriched
    mItems,     \* number of fields and list elements set in mBase and mContrib
    mState,     \* "input" before the call, "returned" after it
    mResult,    \* merge_enrichment: the outcome of the call (None before it)
    clock,      \* Utc::now(), in days
    cache,      \* the rows of table enrichment_cache
    saved,      \* per cache key, the last save_enrichment call if it wrote the row
    cOp,        \* the last operation on the cache and its outcome
    pTable,     \* the rows of table projects
    pSaved,     \* per key of table projects, the last project save_project stored
    pOp,        \* the last operation on table projects and its outcome
    ePkgs,      \* enrich_packages: the input slice of installed packages
    eBackends,  \* enrich_packages: the names of the active backends, in order
    ePc,        \* enrich_packages: "idle", "start", "loop", "backends" or "done"
    eUrlToProject, \* enrich_packages: url_to_project
    eTodo,      \* the keys of url_to_project the loop has not visited, in its order
    eEnriched,  \* enrich_packages: enriched, for the project being processed
    eIdx,       \* index in eBackends of the next backend to run
    eMap,       \* enrich_packages: enrichment_map
    eTrace,     \* what the run did so far: cache reads, backend calls, warnings, saves
    eRet,       \* enrich_packages: the outcome of the call (None before it returns)
    bBackend,   \* a single backend call: the backend's name
    bProject,   \* a single backend call: the project handed to enrich
    bEnv,       \* a single backend call: what the network and gh answer
    bRet        \* a single backend call: the outcome of enrich (None before it)

normVars == <<nIn, nVar, nOut, nVarOut>>
groupVars == <<packages, gState, groups>>
mergeVars == <<mBase, mContrib, mItems, mState, mResult>>

cacheVars == <<clock, cache, saved, cOp>>

tableVars == <<pTable, pSaved, pOp>>

enrichVars == <<ePkgs, eBackends, ePc, eUrlToProject, eTodo, eEnriched, eIdx, eMap,
                eTrace, eRet>>

backendVars == <<bBackend, bProject, bEnv, bRet>>

vars == <<normVars, groupVars, mergeVars, cacheVars, tableVars, enrichVars, backendVars>>

\* What the runs of one component leave alone.
normRest == <<groupVars, mergeVars, cacheVars, tableVars, enrichVars, backendVars>>
groupRest == <<normVars, mergeVars, cacheVars, tableVars, enrichVars, backendVars>>
mergeRest == <<normVars, groupVars, cacheVars, tableVars, enrichVars, backendVars>>
cacheRest == <<normVars, groupVars, mergeVars, tableVars, enrichVars, backendVars>>
tableRest == <<normVars, groupVars, mergeVars, cacheVars, enrichVars, backendVars>>
\* enrich_packages works on the cache as well.
backendRest == <<normVars, groupVars, mergeVars, cacheVars, tableVars, enrichVars>>
enrichRest == <<normVars, groupVars, mergeVars, tableVars, backendVars>>

(***************************************************************************)
(* Bounds.                                                                 *)
(***************************************************************************)
\* Number of tokens an input url of the normalisation runs is built from.
MaxTokens == 3
\* Number of successive normalize_url applications.
MaxApply == 2
\* Number of packages in the slice given to group_by_project.
MaxPkgs == 3
\* Number of fields and list elements set in the two arguments of a merge.
MaxItems == 3
\* Number of days the clock of the cache runs advance.
MaxClock == 9
\* Number of packages in the slice given to enrich_packages.
MaxEnrichPkgs == 2
\* The reads of an entry that are counted since its last write.
MaxReads == 1

(***************************************************************************)
(* Option<T>: None is <<>>, Some(x) is <<x>>.                              *)
(***************************************************************************)
None == <<>>
Some(x) == <<x>>
IsSome(o) == Len(o) = 1
Unwrap(o) == o[1]

(***************************************************************************)
(* UpstreamProject and FundingChannel (src/src/project/mod.rs).  Names,    *)
(* licences and platform labels are opaque strings.                        *)
(***************************************************************************)
UpstreamProject(name) ==
    [name |-> name, repo_url |-> None, homepage |-> None, licenses |-> <<>>,
     funding |-> <<>>, bug_tracker |-> None, contributing_url |-> None,
     is_open_source |-> None, documentation_url |-> None,
     good_first_issues_url |-> None, stars |-> None]

FundingChannel(platform, url) == [platform |-> platform, url |-> url]

(***************************************************************************)
(* The state of each component while another one runs.                     *)
(***************************************************************************)
NormIdle == nIn = <<>> /\ nVar = <<>> /\ nOut = <<>> /\ nVarOut = None

GroupIdle == packages = <<>> /\ gState = "input" /\ groups = <<>>

\* "u1", "u2"
UrlValues == {<<117, 49>>, <<117, 50>>}

\* The keys the cache is called with.
CacheKeys == UrlValues

NoOp == [op |-> "none"]

CacheIdle ==
    /\ clock = 0
    /\ cache = {}
    /\ saved = [k \in CacheKeys |-> None]
    /\ cOp = NoOp

TableIdle ==
    /\ pTable = {}
    /\ pSaved = [k \in UrlValues |-> None]
    /\ pOp = NoOp

BackendIdle ==
    /\ bBackend = "none"
    /\ bProject = None
    /\ bEnv = None
    /\ bRet = None

EnrichIdle ==
    /\ ePkgs = <<>>
    /\ eBackends = <<>>
    /\ ePc = "idle"
    /\ eUrlToProject = <<>>
    /\ eTodo = <<>>
    /\ eEnriched = None
    /\ eIdx = 0
    /\ eMap = <<>>
    /\ eTrace = <<>>
    /\ eRet = None

MergeIdle ==
    /\ mBase = UpstreamProject("base")
    /\ mContrib = UpstreamProject("base")
    /\ mItems = 0
    /\ mState = "input"
    /\ mResult = None

(***************************************************************************)
(* str primitives used by normalize_url.                                   *)
(***************************************************************************)
\* char::is_whitespace restricted to ASCII: tab, LF, VT, FF, CR, space.
IsWhitespace(c) == c \in {9, 10, 11, 12, 13, 32}

RECURSIVE TrimStart(_)
TrimStart(s) ==
    IF s # <<>> /\ IsWhitespace(Head(s)) THEN TrimStart(Tail(s)) ELSE s

RECURSIVE TrimEnd(_)
TrimEnd(s) ==
    IF s # <<>> /\ IsWhitespace(s[Len(s)])
    THEN TrimEnd(SubSeq(s, 1, Len(s) - 1))
    ELSE s

\* str::trim
Trim(s) == TrimEnd(TrimStart(s))

\* str::trim_end_matches(c): removes every trailing occurrence of c.
RECURSIVE TrimEndMatches(_, _)
TrimEndMatches(s, c) ==
    IF s # <<>> /\ s[Len(s)] = c
    THEN TrimEndMatches(SubSeq(s, 1, Len(s) - 1), c)
    ELSE s

StartsWith(s, p) == Len(s) >= Len(p) /\ SubSeq(s, 1, Len(p)) = p

\* str::strip_prefix: Some(rest) when s starts with p (byte-exact), else None.
StripPrefix(s, p) ==
    IF StartsWith(s, p) THEN Some(SubSeq(s, Len(p) + 1, Len(s))) ELSE None

\* Option::or_else / Option::unwrap_or
OrElse(o, alt) == IF IsSome(o) THEN o ELSE alt
UnwrapOr(o, d) == IF IsSome(o) THEN Unwrap(o) ELSE d

\* char::to_lowercase on ASCII.
LowerChar(c) == IF c \in 65..90 THEN c + 32 ELSE c
UpperChar(c) == IF c \in 97..122 THEN c - 32 ELSE c

\* str::to_lowercase
ToLowercase(s) == [i \in 1..Len(s) |-> LowerChar(s[i])]

\* The literals of normalize_url.
HttpsPrefix == <<104, 116, 116, 112, 115, 58, 47, 47>>   \* "https://"
HttpPrefix == <<104, 116, 116, 112, 58, 47, 47>>         \* "http://"
WwwPrefix == <<119, 119, 119, 46>>                       \* "www."
Slash == <<47>>                                          \* "/"

(***************************************************************************)
(* normalize_url                                                           *)
(***************************************************************************)
\* Variant: trim_end_matches('/') replaced by strip_suffix('/'), which
\* removes one trailing "/" only.
normalize_url_one_slash(url) ==
    LET t == Trim(url)
        s1 == IF t # <<>> /\ t[Len(t)] = 47 THEN SubSeq(t, 1, Len(t) - 1) ELSE t
        s2 == UnwrapOr(OrElse(StripPrefix(s1, HttpsPrefix),
                              StripPrefix(s1, HttpPrefix)), s1)
        s3 == UnwrapOr(StripPrefix(s2, WwwPrefix), s2)
    IN  ToLowercase(s3)

\* Variant: the final to_lowercase() left out.
normalize_url_no_lowercase(url) ==
    LET s1 == TrimEndMatches(Trim(url), 47)
        s2 == UnwrapOr(OrElse(StripPrefix(s1, HttpsPrefix),
                              StripPrefix(s1, HttpPrefix)), s1)
    IN  UnwrapOr(StripPrefix(s2, WwwPrefix), s2)

normalize_url(url) ==
    LET s1 == TrimEndMatches(Trim(url), 47)
        s2 == UnwrapOr(OrElse(StripPrefix(s1, HttpsPrefix),
                              StripPrefix(s1, HttpPrefix)), s1)
        s3 == UnwrapOr(StripPrefix(s2, WwwPrefix), s2)
    IN  ToLowercase(s3)

(***************************************************************************)
(* compute_ancestor                                                        *)
(***************************************************************************)
\* str::rfind(c): the largest index holding c, 0 when there is none.
RECURSIVE RFind(_, _, _)
RFind(s, c, i) ==
    IF i = 0 THEN 0 ELSE IF s[i] = c THEN i ELSE RFind(s, c, i - 1)

compute_ancestor(normalized_url) ==
    IF normalized_url = <<>>
    THEN None
    ELSE LET pos == RFind(normalized_url, 47, Len(normalized_url))
         IN  IF pos = 0 THEN None ELSE Some(SubSeq(normalized_url, 1, pos - 1))

(***************************************************************************)
(* String order (Ord for String: byte-wise lexicographic) and the sorts.   *)
(***************************************************************************)
RECURSIVE StrLess(_, _)
StrLess(a, b) ==
    IF b = <<>> THEN FALSE
    ELSE IF a = <<>> THEN TRUE
    ELSE IF Head(a) # Head(b) THEN Head(a) < Head(b)
    ELSE StrLess(Tail(a), Tail(b))

StrLeq(a, b) == a = b \/ StrLess(a, b)

\* Insert x into the sorted sequence s after every element not greater than it.
RECURSIVE InsertStr(_, _)
InsertStr(s, x) ==
    IF s = <<>> THEN <<x>>
    ELSE IF StrLess(x, Head(s)) THEN <<x>> \o s
    ELSE <<Head(s)>> \o InsertStr(Tail(s), x)

\* Vec<String>::sort
RECURSIVE SortStrings(_)
SortStrings(s) ==
    IF s = <<>> THEN <<>>
    ELSE InsertStr(SortStrings(SubSeq(s, 1, Len(s) - 1)), s[Len(s)])

\* Insert group g after every group whose url is not greater: keeps the
\* relative order of groups with equal urls (sort_by is stable).
RECURSIVE InsertGroup(_, _)
InsertGroup(gs, g) ==
    IF gs = <<>> THEN <<g>>
    ELSE IF StrLess(g.url, Head(gs).url) THEN <<g>> \o gs
    ELSE <<Head(gs)>> \o InsertGroup(Tail(gs), g)

\* Variant: the final sort left out.
SortGroups_unsorted(gs) == gs

\* groups.sort_by(|a, b| a.url.cmp(&b.url))
RECURSIVE SortGroups(_)
SortGroups(gs) ==
    IF gs = <<>> THEN <<>>
    ELSE InsertGroup(SortGroups(SubSeq(gs, 1, Len(gs) - 1)), gs[Len(gs)])

(***************************************************************************)
(* group_by_project.  A package reference &InstalledPackage is the index   *)
(* of the package in the input slice.  A HashMap is a function; the order  *)
(* in which it is iterated is not specified by the language, so it is an   *)
(* argument: a sequence listing the map's keys once each.                  *)
(***************************************************************************)
PkgKey(pkg) == IF IsSome(pkg.url) THEN normalize_url(Unwrap(pkg.url)) ELSE <<>>

\* Variant: exact_map.insert(key, vec![pkg]), which replaces the bucket.
RECURSIVE BuildExactMap_insert(_, _, _)
BuildExactMap_insert(pkgs, i, m) ==
    IF i > Len(pkgs) THEN m
    ELSE LET key == IF IsSome(pkgs[i].url) THEN normalize_url(Unwrap(pkgs[i].url)) ELSE <<>>
         IN  BuildExactMap_insert(pkgs, i + 1,
                 IF key \in DOMAIN m
                 THEN [m EXCEPT ![key] = <<i>>]
                 ELSE m @@ (key :> <<i>>))

\* Step 1: exact_map.entry(key).or_default().push(pkg), for pkg in packages.
RECURSIVE BuildExactMap(_, _, _)
BuildExactMap(pkgs, i, m) ==
    IF i > Len(pkgs) THEN m
    ELSE LET key == PkgKey(pkgs[i])
         IN  BuildExactMap(pkgs, i + 1,
                 IF key \in DOMAIN m
                 THEN [m EXCEPT ![key] = Append(@, i)]
                 ELSE m @@ (key :> <<i>>))

\* Step 2: ancestor_children.entry(ancestor).or_default().push(url), for url in urls.
RECURSIVE BuildAncestorChildren(_, _, _)
BuildAncestorChildren(urls, i, m) ==
    IF i > Len(urls) THEN m
    ELSE LET url == urls[i]
             anc == compute_ancestor(url)
         IN  BuildAncestorChildren(urls, i + 1,
                 IF IsSome(anc) /\ Unwrap(anc) # <<>>
                 THEN IF Unwrap(anc) \in DOMAIN m
                      THEN [m EXCEPT ![Unwrap(anc)] = Append(@, url)]
                      ELSE m @@ (Unwrap(anc) :> <<url>>)
                 ELSE m)

\* all_packages.extend(pkgs.iter()) for child_url in children.
RECURSIVE ExtendAll(_, _, _)
ExtendAll(children, i, exact_map) ==
    IF i > Len(children) THEN <<>>
    ELSE (IF children[i] \in DOMAIN exact_map THEN exact_map[children[i]] ELSE <<>>)
         \o ExtendAll(children, i + 1, exact_map)

SeqRange(s) == {s[i] : i \in 1..Len(s)}

\* Variant: the plurality threshold lowered to one child.
Eligible_one_child(children) == Len(children) >= 1

\* if children.len() >= 2
Eligible(children) == Len(children) >= 2

\* Step 3: one ancestor group per ancestor with two or more children, in the
\* iteration order of ancestor_children.
\* Variant: project_urls.sort() left out.
RECURSIVE MergedGroups_unsorted(_, _, _, _)
MergedGroups_unsorted(aorder, i, ancestor_children, exact_map) ==
    IF i > Len(aorder) THEN <<>>
    ELSE LET ancestor == aorder[i]
             children == ancestor_children[ancestor]
         IN  (IF Eligible(children)
              THEN <<[url |-> ancestor,
                      project_urls |-> children,
                      packages |-> ExtendAll(children, 1, exact_map)]>>
              ELSE <<>>)
             \o MergedGroups_unsorted(aorder, i + 1, ancestor_children, exact_map)

RECURSIVE MergedGroups(_, _, _, _)
MergedGroups(aorder, i, ancestor_children, exact_map) ==
    IF i > Len(aorder) THEN <<>>
    ELSE LET ancestor == aorder[i]
             children == ancestor_children[ancestor]
         IN  (IF Eligible(children)
              THEN <<[url |-> ancestor,
                      project_urls |-> SortStrings(children),
                      packages |-> ExtendAll(children, 1, exact_map)]>>
              ELSE <<>>)
             \o MergedGroups(aorder, i + 1, ancestor_children, exact_map)

\* Variant: already_merged.insert(child_url) left out.
AlreadyMerged_never(ancestor_children) == {}

\* already_merged after step 3.
AlreadyMerged(ancestor_children) ==
    UNION {SeqRange(ancestor_children[a]) :
             a \in {x \in DOMAIN ancestor_children : Eligible(ancestor_children[x])}}

\* Step 4: the exact buckets that were not merged, in the iteration order of exact_map.
RECURSIVE StandaloneGroups(_, _, _, _)
StandaloneGroups(order, i, exact_map, already_merged) ==
    IF i > Len(order) THEN <<>>
    ELSE (IF order[i] \notin already_merged
          THEN <<[url |-> order[i],
                  project_urls |-> <<>>,
                  packages |-> exact_map[order[i]]]>>
          ELSE <<>>)
         \o StandaloneGroups(order, i + 1, exact_map, already_merged)

\* The sequences that list every element of S exactly once.
RECURSIVE Orders(_)
Orders(S) ==
    IF S = {} THEN {<<>>}
    ELSE UNION {{<<x>> \o rest : rest \in Orders(S \ {x})} : x \in S}

ExactMapOf(pkgs) == BuildExactMap(pkgs, 1, <<>>)

\* Steps 2 to 4 and the final sort, given exact_map and the iteration orders.
\* order: iteration order of exact_map (the same for keys() and for step 4,
\* the map is not modified in between); aorder: that of ancestor_children.
GroupsFromExactMap(exact_map, order, aorder) ==
    LET ancestor_children == BuildAncestorChildren(order, 1, <<>>)
        merged == MergedGroups(aorder, 1, ancestor_children, exact_map)
        already_merged == AlreadyMerged(ancestor_children)
        standalone == StandaloneGroups(order, 1, exact_map, already_merged)
    IN  SortGroups(merged \o standalone)

\* The whole function, given the two iteration orders.
group_by_project(pkgs, order, aorder) ==
    GroupsFromExactMap(ExactMapOf(pkgs), order, aorder)

(***************************************************************************)
(* Inputs.                                                                 *)
(***************************************************************************)
UpperStr(s) == [i \in 1..Len(s) |-> UpperChar(s[i])]

\* The pieces input urls are built from: "https://", "http://", "www.",
\* "/", " " and "x".
BaseTokens == {HttpsPrefix, HttpPrefix, WwwPrefix, Slash, <<32>>, <<120>>}

\* A piece as written in the url and as written in its case variant.
TokenPairs ==
    {<<a, b>> : <<a, b>> \in
        UNION {{t, UpperStr(t)} \X {t, UpperStr(t)} : t \in BaseTokens}}

TokenPairSeqs == UNION {[1..n -> TokenPairs] : n \in 0..MaxTokens}

RECURSIVE Concat(_, _)
Concat(ps, k) ==
    IF ps = <<>> THEN <<>> ELSE Head(ps)[k] \o Concat(Tail(ps), k)

\* Raw package urls: "a/b", "https://www.A/B/", "a/c", "a/b/c", "a/b/d",
\* "/a", "/b", "b", "/".
RawUrls ==
    { <<97, 47, 98>>,
      <<104, 116, 116, 112, 115, 58, 47, 47, 119, 119, 119, 46, 65, 47, 66, 47>>,
      <<97, 47, 99>>,
      <<97, 47, 98, 47, 99>>,
      <<97, 47, 98, 47, 100>>,
      <<47, 97>>,
      <<47, 98>>,
      <<98>>,
      <<47>> }

\* InstalledPackage, reduced to the field group_by_project reads.
Packages == {[url |-> u] : u \in {None} \cup {Some(r) : r \in RawUrls}}

PackageLists == UNION {[1..n -> Packages] : n \in 0..MaxPkgs}

(***************************************************************************)
(* Normalisation runs.                                                     *)
(***************************************************************************)
NormInit ==
    /\ \E ps \in TokenPairSeqs :
          /\ nIn = Concat(ps, 1)
          /\ nVar = Concat(ps, 2)
    /\ nOut = <<>>
    /\ nVarOut = None
    /\ GroupIdle
    /\ MergeIdle
    /\ CacheIdle
    /\ TableIdle
    /\ EnrichIdle
    /\ BackendIdle

\* normalize_url called on the input, then on its own result.
NormalizeUrl ==
    /\ Len(nOut) < MaxApply
    /\ nOut' = Append(nOut, normalize_url(IF nOut = <<>> THEN nIn ELSE nOut[Len(nOut)]))
    /\ UNCHANGED <<nIn, nVar, nVarOut, normRest>>

\* normalize_url called on the case variant.
NormalizeVariant ==
    /\ nVarOut = None
    /\ nVarOut' = Some(normalize_url(nVar))
    /\ UNCHANGED <<nIn, nVar, nOut, normRest>>

NormNext == NormalizeUrl \/ NormalizeVariant

NormSpec == NormInit /\ [][NormNext]_vars

(***************************************************************************)
(* Grouping runs.                                                          *)
(***************************************************************************)
GroupInit ==
    /\ packages \in PackageLists
    /\ gState = "input"
    /\ groups = <<>>
    /\ NormIdle
    /\ MergeIdle
    /\ CacheIdle
    /\ TableIdle
    /\ EnrichIdle
    /\ BackendIdle

GroupByProject ==
    /\ gState = "input"
    /\ LET exact_map == ExactMapOf(packages)
       IN  \E order \in Orders(DOMAIN exact_map) :
             \E aorder \in Orders(DOMAIN BuildAncestorChildren(order, 1, <<>>)) :
                groups' = group_by_project(packages, order, aorder)
    /\ gState' = "returned"
    /\ UNCHANGED <<packages, groupRest>>

GroupNext == GroupByProject

GroupSpec == GroupInit /\ [][GroupNext]_vars

(***************************************************************************)
(* merge_enrichment (src/src/enrich/mod.rs)                                *)
(***************************************************************************)
\* The outcome of a call: a returned value or an error.
Returns(v) == [err |-> FALSE, val |-> v]
Fails == [err |-> TRUE, val |-> None]

\* Variant: only the first element is compared.
Contains_head(s, x) == s # <<>> /\ s[1] = x

\* Vec::contains
Contains(s, x) == \E i \in 1..Len(s) : s[i] = x

\* if result.f.is_none() && enriched.f.is_some() { result.f = enriched.f }
Overlay(mine, theirs) == IF mine = None /\ IsSome(theirs) THEN theirs ELSE mine

\* Variant: a new licence is put in front of the list.
RECURSIVE MergeLicenses_prepend(_, _, _)
MergeLicenses_prepend(result, theirs, i) ==
    IF i > Len(theirs) THEN result
    ELSE MergeLicenses_prepend(IF Contains(result, theirs[i]) THEN result
                               ELSE <<theirs[i]>> \o result,
                               theirs, i + 1)

\* for license in &enriched.licenses { if !result.licenses.contains(license) { push } }
RECURSIVE MergeLicenses(_, _, _)
MergeLicenses(result, theirs, i) ==
    IF i > Len(theirs) THEN result
    ELSE MergeLicenses(IF Contains(result, theirs[i]) THEN result
                       ELSE Append(result, theirs[i]),
                       theirs, i + 1)

\* Variant: channels compared as a whole (platform and url).
SameChannel_whole(f, channel) == f = channel

\* |f| f.url == channel.url
SameChannel(f, channel) == f.url = channel.url

\* for channel in &enriched.funding { if !result.funding.iter().any(..) { push } }
RECURSIVE MergeFunding(_, _, _)
MergeFunding(result, theirs, i) ==
    IF i > Len(theirs) THEN result
    ELSE MergeFunding(IF \E n \in 1..Len(result) : SameChannel(result[n], theirs[i])
                      THEN result
                      ELSE Append(result, theirs[i]),
                      theirs, i + 1)

\* Variant: every field of enriched that is set replaces the one of base.
merge_enrichment_overwrite(base, enriched) ==
    [base EXCEPT
        !.homepage = IF IsSome(enriched.homepage) THEN enriched.homepage ELSE @,
        !.bug_tracker = IF IsSome(enriched.bug_tracker) THEN enriched.bug_tracker ELSE @,
        !.contributing_url =
            IF IsSome(enriched.contributing_url) THEN enriched.contributing_url ELSE @,
        !.documentation_url =
            IF IsSome(enriched.documentation_url) THEN enriched.documentation_url ELSE @,
        !.good_first_issues_url =
            IF IsSome(enriched.good_first_issues_url) THEN enriched.good_first_issues_url ELSE @,
        !.is_open_source = IF IsSome(enriched.is_open_source) THEN enriched.is_open_source ELSE @,
        !.stars = IF IsSome(enriched.stars) THEN enriched.stars ELSE @,
        !.licenses = MergeLicenses(@, enriched.licenses, 1),
        !.funding = MergeFunding(@, enriched.funding, 1)]

\* result = base.clone(), then the field-by-field overlay; name and repo_url
\* are never assigned.
merge_enrichment(base, enriched) ==
    [base EXCEPT
        !.homepage = Overlay(@, enriched.homepage),
        !.bug_tracker = Overlay(@, enriched.bug_tracker),
        !.contributing_url = Overlay(@, enriched.contributing_url),
        !.documentation_url = Overlay(@, enriched.documentation_url),
        !.good_first_issues_url = Overlay(@, enriched.good_first_issues_url),
        !.is_open_source = Overlay(@, enriched.is_open_source),
        !.stars = Overlay(@, enriched.stars),
        !.licenses = MergeLicenses(@, enriched.licenses, 1),
        !.funding = MergeFunding(@, enriched.funding, 1)]

(***************************************************************************)
(* Merge runs: the two arguments are built field by field, then merged.    *)
(***************************************************************************)
StarValues == {5, 100}
LicenseValues == {"MIT", "GPL-3.0"}
PlatformValues == {"GitHub Sponsors", "Liberapay"}

UrlFields == {"repo_url", "homepage", "bug_tracker", "contributing_url",
              "documentation_url", "good_first_issues_url"}
OptionFields == UrlFields \cup {"is_open_source", "stars"}

FieldValues(f) ==
    IF f = "stars" THEN StarValues
    ELSE IF f = "is_open_source" THEN BOOLEAN
    ELSE UrlValues

MergeInit ==
    /\ mBase = UpstreamProject("base")
    /\ mContrib = UpstreamProject("base")
    /\ mItems = 0
    /\ mState = "input"
    /\ mResult = None
    /\ NormIdle
    /\ GroupIdle
    /\ CacheIdle
    /\ TableIdle
    /\ EnrichIdle
    /\ BackendIdle

Building == mState = "input" /\ mItems < MaxItems

\* An optional field of base or of the contribution is given a value.
SetBaseField ==
    /\ Building
    /\ \E f \in OptionFields : \E v \in FieldValues(f) :
          /\ mBase[f] = None
          /\ mBase' = [mBase EXCEPT ![f] = Some(v)]
    /\ mItems' = mItems + 1
    /\ UNCHANGED <<mContrib, mState, mResult, mergeRest>>

SetContribField ==
    /\ Building
    /\ \E f \in OptionFields : \E v \in FieldValues(f) :
          /\ mContrib[f] = None
          /\ mContrib' = [mContrib EXCEPT ![f] = Some(v)]
    /\ mItems' = mItems + 1
    /\ UNCHANGED <<mBase, mState, mResult, mergeRest>>

\* The contribution carries another name than base.
RenameContrib ==
    /\ Building
    /\ mContrib.name = "base"
    /\ mContrib' = [mContrib EXCEPT !.name = "other"]
    /\ mItems' = mItems + 1
    /\ UNCHANGED <<mBase, mState, mResult, mergeRest>>

PushBaseLicense ==
    /\ Building
    /\ \E l \in LicenseValues : mBase' = [mBase EXCEPT !.licenses = Append(@, l)]
    /\ mItems' = mItems + 1
    /\ UNCHANGED <<mContrib, mState, mResult, mergeRest>>

PushContribLicense ==
    /\ Building
    /\ \E l \in LicenseValues : mContrib' = [mContrib EXCEPT !.licenses = Append(@, l)]
    /\ mItems' = mItems + 1
    /\ UNCHANGED <<mBase, mState, mResult, mergeRest>>

PushBaseFunding ==
    /\ Building
    /\ \E pl \in PlatformValues, u \in UrlValues :
          mBase' = [mBase EXCEPT !.funding = Append(@, FundingChannel(pl, u))]
    /\ mItems' = mItems + 1
    /\ UNCHANGED <<mContrib, mState, mResult, mergeRest>>

PushContribFunding ==
    /\ Building
    /\ \E pl \in PlatformValues, u \in UrlValues :
          mContrib' = [mContrib EXCEPT !.funding = Append(@, FundingChannel(pl, u))]
    /\ mItems' = mItems + 1
    /\ UNCHANGED <<mBase, mState, mResult, mergeRest>>

\* merge_enrichment(&base, &enriched): returns a project, it has no error path.
MergeEnrichment ==
    /\ mState = "input"
    /\ mResult' = Some(Returns(merge_enrichment(mBase, mContrib)))
    /\ mState' = "returned"
    /\ UNCHANGED <<mBase, mContrib, mItems, mergeRest>>

MergeNext ==
    \/ SetBaseField
    \/ SetContribField
    \/ RenameContrib
    \/ PushBaseLicense
    \/ PushContribLicense
    \/ PushBaseFunding
    \/ PushContribFunding
    \/ MergeEnrichment

MergeSpec == MergeInit /\ [][MergeNext]_vars

(***************************************************************************)
(* The enrichment cache (src/src/storage.rs): table enrichment_cache with  *)
(* columns project_url (primary key), data (JSON text), cached_at          *)
(* (RFC 3339 text).                                                        *)
(***************************************************************************)
\* Duration::days(7)
CacheTtlDays == 7

\* A JSON member: absent from the object, null, or a value.
JsonAbsent == <<"absent">>
JsonNull == <<"null">>
JsonVal(x) == <<"val", x>>

\* Serialize for Option<T>: None is null.
JsonOfOption(o) == IF o = None THEN JsonNull ELSE JsonVal(Unwrap(o))

\* Deserialize for Option<T>: null and an absent member are None.
OptionOfJson(j) == IF j[1] = "val" THEN Some(j[2]) ELSE None

\* serde_json::to_string(project): the derived Serialize writes every field.
to_string(project) ==
    [name |-> JsonVal(project.name),
     repo_url |-> JsonOfOption(project.repo_url),
     homepage |-> JsonOfOption(project.homepage),
     licenses |-> JsonVal(project.licenses),
     funding |-> JsonVal(project.funding),
     bug_tracker |-> JsonOfOption(project.bug_tracker),
     contributing_url |-> JsonOfOption(project.contributing_url),
     is_open_source |-> JsonOfOption(project.is_open_source),
     documentation_url |-> JsonOfOption(project.documentation_url),
     good_first_issues_url |-> JsonOfOption(project.good_first_issues_url),
     stars |-> JsonOfOption(project.stars)]

\* serde_json::from_str::<UpstreamProject>(data): name, licenses and funding
\* are required; every Option field may be null or absent.
from_str(data) ==
    IF data.name[1] # "val" \/ data.licenses[1] # "val" \/ data.funding[1] # "val"
    THEN Fails
    ELSE Returns([name |-> data.name[2],
                  repo_url |-> OptionOfJson(data.repo_url),
                  homepage |-> OptionOfJson(data.homepage),
                  licenses |-> data.licenses[2],
                  funding |-> data.funding[2],
                  bug_tracker |-> OptionOfJson(data.bug_tracker),
                  contributing_url |-> OptionOfJson(data.contributing_url),
                  is_open_source |-> OptionOfJson(data.is_open_source),
                  documentation_url |-> OptionOfJson(data.documentation_url),
                  good_first_issues_url |-> OptionOfJson(data.good_first_issues_url),
                  stars |-> OptionOfJson(data.stars)])

\* DateTime::to_rfc3339 and its parse.
to_rfc3339(t) == <<"rfc3339", t>>
parse_rfc3339(text) == text[2]

\* Variant: a plain INSERT that leaves the rows of the key in place.
InsertOrReplace_insert(table, row) == table \cup {row}

\* INSERT OR REPLACE INTO enrichment_cache: project_url is the primary key.
InsertOrReplace(table, row) ==
    {r \in table : r.project_url # row.project_url} \cup {row}

\* save_enrichment(project_url, project) at time now: the outcome and the table.
save_enrichment(table, now, project_url, project) ==
    [ret |-> Returns(None),
     table |-> InsertOrReplace(table, [project_url |-> project_url,
                                       data |-> to_string(project),
                                       cached_at |-> to_rfc3339(now)])]

\* Variant: an entry expires when it is exactly 7 days old.
Expired_at_ttl(now, cached_at) == now - cached_at >= CacheTtlDays

\* Utc::now() - cached_at > Duration::days(7)
Expired(now, cached_at) == now - cached_at > CacheTtlDays

\* get_enrichment(project_url) at time now; the table is only read.
get_enrichment(table, now, project_url) ==
    LET rows == {r \in table : r.project_url = project_url}
    IN IF rows = {} THEN Returns(None)
       ELSE LET row == CHOOSE r \in rows : TRUE
                project == from_str(row.data)
            IN IF Expired(now, parse_rfc3339(row.cached_at)) THEN Returns(None)
               ELSE IF project.err THEN Fails
               ELSE Returns(Some(project.val))

\* Variant: a read that finds the entry stamps it with the time of the read.
AfterRead_touch(table, now, project_url) ==
    {IF r.project_url = project_url THEN [r EXCEPT !.cached_at = to_rfc3339(now)] ELSE r :
        r \in table}

\* The table after get_enrichment(project_url): the only statement is a
\* SELECT, no row is written.
AfterRead(table, now, project_url) == table

\* The ghost record of a save after one more read: reads counts, up to
\* MaxReads, the reads that returned the saved project.
CountRead(s, got) ==
    IF IsSome(s) /\ ~got.err /\ IsSome(got.val) /\ Unwrap(s).reads < MaxReads
    THEN Some([Unwrap(s) EXCEPT !.reads = @ + 1])
    ELSE s

\* The projects handed to save_enrichment.
CacheProjects ==
    {[UpstreamProject("base") EXCEPT !.repo_url = Some(<<117, 49>>),
                                     !.licenses = <<"MIT">>,
                                     !.stars = Some(100)],
     [UpstreamProject("other") EXCEPT !.homepage = Some(<<117, 50>>),
                                      !.funding = <<FundingChannel("Liberapay", <<117, 50>>)>>,
                                      !.is_open_source = Some(TRUE)],
     UpstreamProject("base")}

\* A JSON object without the required member "name".
CorruptData == [to_string(UpstreamProject("base")) EXCEPT !.name = JsonAbsent]

\* The JSON object data without the members named in fields.
Lacking(data, fields) ==
    [f \in DOMAIN data |-> IF f \in fields THEN JsonAbsent ELSE data[f]]

\* The members a blob written by an older version does not have: the four
\* fields added last, or the two lists.
LackSets ==
    {{"is_open_source", "documentation_url", "good_first_issues_url", "stars"},
     {"licenses", "funding"}}

\* The data of the rows written by something else than save_enrichment.
RawData ==
    {CorruptData} \cup
    {Lacking(to_string([UpstreamProject("base") EXCEPT !.repo_url = Some(<<117, 49>>),
                                                       !.licenses = <<"MIT">>,
                                                       !.stars = Some(100)]), fields) :
        fields \in LackSets}

CacheInit ==
    /\ CacheIdle
    /\ TableIdle
    /\ EnrichIdle
    /\ BackendIdle
    /\ NormIdle
    /\ GroupIdle
    /\ MergeIdle

\* A day passes.
Tick ==
    /\ clock < MaxClock
    /\ clock' = clock + 1
    /\ cOp' = [op |-> "tick"]
    /\ UNCHANGED <<cache, saved, cacheRest>>

\* What the row of a key is to a reader at time now.
RowAge(table, now, project_url) ==
    LET rows == {r \in table : r.project_url = project_url}
    IN IF rows = {} THEN "absent"
       ELSE IF \E r \in rows : now - parse_rfc3339(r.cached_at) > CacheTtlDays THEN "stale"
       ELSE "fresh"

SaveEnrichment ==
    \E project_url \in CacheKeys, project \in CacheProjects :
        LET call == save_enrichment(cache, clock, project_url, project)
        IN /\ cache' = call.table
           /\ saved' = [saved EXCEPT ![project_url] =
                           IF call.ret.err THEN @
                           ELSE Some([project |-> project, at |-> clock,
                                      prev |-> RowAge(cache, clock, project_url),
                                      reads |-> 0])]
           /\ cOp' = [op |-> "save", key |-> project_url, project |-> project,
                      ret |-> call.ret]
           /\ UNCHANGED <<clock, cacheRest>>

GetEnrichment ==
    \E project_url \in CacheKeys :
        LET got == get_enrichment(cache, clock, project_url)
        IN /\ cOp' = [op |-> "get", key |-> project_url, ret |-> got]
           /\ cache' = AfterRead(cache, clock, project_url)
           /\ saved' = [saved EXCEPT ![project_url] = CountRead(@, got)]
           /\ UNCHANGED <<clock, cacheRest>>

\* The database file is written by something else than save_enrichment (an
\* older version of the program, a raw INSERT): a row whose data lacks members
\* takes the place of the key's row.
RawInsert ==
    \E project_url \in CacheKeys, data \in RawData :
        /\ cache' = InsertOrReplace(cache, [project_url |-> project_url,
                                            data |-> data,
                                            cached_at |-> to_rfc3339(clock)])
        /\ saved' = [saved EXCEPT ![project_url] = None]
        /\ cOp' = [op |-> "raw", key |-> project_url]
        /\ UNCHANGED <<clock, cacheRest>>

CacheNext ==
    \/ Tick
    \/ SaveEnrichment
    \/ GetEnrichment
    \/ RawInsert

CacheSpec == CacheInit /\ [][CacheNext]_vars

(***************************************************************************)
(* Table projects (src/src/storage.rs): url is the primary key, the other  *)
(* columns hold the fields of the project; stars is an SQLite INTEGER.     *)
(***************************************************************************)
\* u64 and i64 are modelled with IntBits bits.
IntBits == 4
TwoToBits == 2 ^ IntBits

\* s as i64
as_i64(s) == IF s >= TwoToBits \div 2 THEN s - TwoToBits ELSE s

\* s as u64
as_u64(s) == s % TwoToBits

\* Option::or
OrOption(a, b) == IF IsSome(a) THEN a ELSE b

\* Variant: the homepage is preferred to repo_url.
ProjectKey_homepage_first(project) == OrOption(project.homepage, project.repo_url)

\* project.repo_url.as_deref().or(project.homepage.as_deref())
ProjectKey(project) == OrOption(project.repo_url, project.homepage)

\* INSERT OR REPLACE INTO projects
ReplaceProject(table, row) == {r \in table : r.url # row.url} \cup {row}

\* save_project(project): the outcome and the table.
save_project(table, project) ==
    LET url == ProjectKey(project)
    IN IF url = None THEN [ret |-> Fails, table |-> table]
       ELSE [ret |-> Returns(None),
             table |-> ReplaceProject(table,
                 [url |-> Unwrap(url),
                  name |-> project.name,
                  repo_url |-> project.repo_url,
                  homepage |-> project.homepage,
                  licenses |-> JsonVal(project.licenses),
                  funding |-> JsonVal(project.funding),
                  bug_tracker |-> project.bug_tracker,
                  contributing_url |-> project.contributing_url,
                  is_open_source |-> project.is_open_source,
                  documentation_url |-> project.documentation_url,
                  good_first_issues_url |-> project.good_first_issues_url,
                  stars |-> IF project.stars = None THEN None
                            ELSE Some(as_i64(Unwrap(project.stars)))])]

\* get_project(url); the table is only read.
get_project(table, url) ==
    LET rows == {r \in table : r.url = url}
    IN IF rows = {} THEN Returns(None)
       ELSE LET row == CHOOSE r \in rows : TRUE
            IN Returns(Some([name |-> row.name,
                             repo_url |-> row.repo_url,
                             homepage |-> row.homepage,
                             licenses |-> row.licenses[2],
                             funding |-> row.funding[2],
                             bug_tracker |-> row.bug_tracker,
                             contributing_url |-> row.contributing_url,
                             is_open_source |-> row.is_open_source,
                             documentation_url |-> row.documentation_url,
                             good_first_issues_url |-> row.good_first_issues_url,
                             stars |-> IF row.stars = None THEN None
                                       ELSE Some(as_u64(Unwrap(row.stars)))]))

\* The projects handed to save_project: stars 12 does not fit the positive
\* half of the signed column.
TableProjects ==
    {[UpstreamProject(name) EXCEPT !.repo_url = r, !.homepage = h, !.stars = st] :
        name \in {"base", "other"},
        r \in {None} \cup {Some(u) : u \in UrlValues},
        h \in {None} \cup {Some(u) : u \in UrlValues},
        st \in {None, Some(5), Some(12)}}

TableInit ==
    /\ TableIdle
    /\ NormIdle
    /\ GroupIdle
    /\ MergeIdle
    /\ CacheIdle
    /\ EnrichIdle
    /\ BackendIdle

SaveProject ==
    \E project \in TableProjects :
        LET call == save_project(pTable, project)
        IN /\ pTable' = call.table
           /\ pSaved' = IF call.ret.err THEN pSaved
                        ELSE [pSaved EXCEPT ![Unwrap(ProjectKey(project))] = Some(project)]
           /\ pOp' = [op |-> "save", project |-> project, ret |-> call.ret,
                      before |-> pTable]
           /\ UNCHANGED tableRest

GetProject ==
    \E url \in UrlValues :
        /\ pOp' = [op |-> "get", url |-> url, ret |-> get_project(pTable, url)]
        /\ UNCHANGED <<pTable, pSaved, tableRest>>

TableNext ==
    \/ SaveProject
    \/ GetProject

TableSpec == TableInit /\ [][TableNext]_vars

(***************************************************************************)
(* enrich_packages and the enrichment backends (src/src/enrich).           *)
(*                                                                         *)
(* What a backend learns from the network or from the gh command is an     *)
(* input of the run: every outcome its code can produce is possible.       *)
(***************************************************************************)
\* HashMap::insert, on maps held as functions.
MapInsert(m, k, v) == [x \in (DOMAIN m) \cup {k} |-> IF x = k THEN v ELSE m[x]]

\* The candidates of active_backends, in the order of the vec!.
Candidates == <<"license_classify", "github", "open_collective", "liberapay">>

\* is_available(): only github's depends on the environment (gh auth status).
is_available(backend, gh_auth) == backend # "github" \/ gh_auth

\* Variant: the network backends come before the local classification.
active_backends_network_first(gh_auth) ==
    SelectSeq(<<"github", "open_collective", "liberapay", "license_classify">>,
              LAMBDA b : is_available(b, gh_auth))

\* candidates.into_iter().filter(|b| b.is_available()).collect()
active_backends(gh_auth) == SelectSeq(Candidates, LAMBDA b : is_available(b, gh_auth))

\* is_osi_approved(&normalize_spdx(l)), for the licences of the runs.
is_osi_approved(l) == l \in {"MIT", "GPL-3.0"}

\* "gh/s": the channel a FUNDING.yml gives.
GithubFunding == <<FundingChannel("GitHub Sponsors", <<103, 104, 47, 115>>)>>

GitPrefix == <<103, 105, 116, 58, 47, 47>>   \* "git://"
SshPrefix == <<103, 105, 116, 64, 103, 105, 116, 104, 117, 98, 46, 99, 111, 109, 58>>
    \* "git@github.com:"
GithubHost == <<103, 105, 116, 104, 117, 98, 46, 99, 111, 109, 47>>   \* "github.com/"
DotGit == <<46, 103, 105, 116>>   \* ".git"

\* "https://github.com/o/r"
GithubUrl == HttpsPrefix \o GithubHost \o <<111, 47, 114>>

\* str::strip_suffix
StripSuffix(s, p) ==
    IF Len(s) >= Len(p) /\ SubSeq(s, Len(s) - Len(p) + 1, Len(s)) = p
    THEN Some(SubSeq(s, 1, Len(s) - Len(p)))
    ELSE None

\* The position of the first c in s at or after i, 0 when there is none.
RECURSIVE Find(_, _, _)
Find(s, c, i) ==
    IF i > Len(s) THEN 0 ELSE IF s[i] = c THEN i ELSE Find(s, c, i + 1)

\* extract_github_owner_repo (src/src/contribute/github_good_first_issues.rs)
extract_github_owner_repo(url) ==
    IF StartsWith(url, SshPrefix)
    THEN LET rest0 == Unwrap(StripPrefix(url, SshPrefix))
             rest == UnwrapOr(StripSuffix(rest0, DotGit), rest0)
             cut == Find(rest, 47, 1)
         IN IF cut > 1 /\ cut < Len(rest) THEN Some(rest) ELSE None
    ELSE LET stripped == OrElse(StripPrefix(url, HttpsPrefix),
                                OrElse(StripPrefix(url, HttpPrefix),
                                       StripPrefix(url, GitPrefix)))
         IN IF stripped = None THEN None
            ELSE LET host == UnwrapOr(StripPrefix(Unwrap(stripped), WwwPrefix),
                                      Unwrap(stripped))
                 IN IF ~StartsWith(host, GithubHost) THEN None
                    ELSE LET path0 == Unwrap(StripPrefix(host, GithubHost))
                             path1 == UnwrapOr(StripSuffix(path0, DotGit), path0)
                             path == TrimEndMatches(path1, 47)
                             cut1 == Find(path, 47, 1)
                             cut2 == IF cut1 = 0 THEN 0 ELSE Find(path, 47, cut1 + 1)
                             last == IF cut2 = 0 THEN Len(path) ELSE cut2 - 1
                         IN IF cut1 > 1 /\ last > cut1
                            THEN Some(SubSeq(path, 1, last))
                            ELSE None

\* What `gh api repos/{owner_repo}` answers when it succeeds.
GhRepo ==
    [stargazer_count |-> Some(100),
     homepage_url |-> Some(<<117, 50>>),
     spdx_id |-> Some("GPL-3.0"),
     has_issues_enabled |-> Some(TRUE),
     url |-> Some(GithubUrl)]

IssuesSuffix == <<47, 105, 115, 115, 117, 101, 115>>   \* "/issues"
GoodFirstSuffix ==
    <<47, 105, 115, 115, 117, 101, 115, 63, 113, 61, 105, 115,
    37, 51, 65, 105, 115, 115, 117, 101, 43, 105, 115,
    37, 51, 65, 111, 112, 101, 110, 43, 108, 97, 98, 101, 108,
    37, 51, 65,
    37, 50, 50, 103, 111, 111, 100, 43, 102, 105, 114, 115, 116, 43, 105, 115, 115, 117, 101,
    37, 50, 50>>
    \* "/issues?q=is%3Aissue+is%3Aopen+label%3A%22good+first+issue%22"
ContributingSuffix ==
    <<47, 98, 108, 111, 98, 47, 72, 69, 65, 68, 47, 67, 79, 78, 84, 82, 73, 66, 85, 84, 73, 78, 71, 46, 109, 100>>
    \* "/blob/HEAD/CONTRIBUTING.md"

\* What the environment of a backend call answers: whether the HTTP client
\* can be built, what the HTTP request gives (a success status, another
\* status, or no response: send failure or timeout), what fetch_repo_metadata
\* and fetch_funding_yml return.
Envs ==
    [client : BOOLEAN,
     send : {"success", "status", "error"},
     gh_repo : {Fails, Returns(GhRepo)},
     gh_funding : {Fails, Returns(<<>>), Returns(GithubFunding)}]

\* The body of `if let Ok(repo) = fetch_repo_metadata(&owner_repo)`.
FillFromRepo(project, repo) ==
    [project EXCEPT
        !.stars = IF @ = None THEN repo.stargazer_count ELSE @,
        !.homepage = IF @ = None /\ IsSome(repo.homepage_url)
                        /\ Unwrap(repo.homepage_url) # <<>>
                     THEN repo.homepage_url ELSE @,
        !.licenses = IF IsSome(repo.spdx_id) /\ Unwrap(repo.spdx_id) # "NOASSERTION"
                        /\ ~Contains(@, Unwrap(repo.spdx_id))
                     THEN Append(@, Unwrap(repo.spdx_id)) ELSE @,
        !.bug_tracker = IF IsSome(repo.url) /\ @ = None
                           /\ UnwrapOr(repo.has_issues_enabled, FALSE)
                        THEN Some(Unwrap(repo.url) \o IssuesSuffix) ELSE @,
        !.good_first_issues_url = IF IsSome(repo.url) /\ @ = None
                                  THEN Some(Unwrap(repo.url) \o GoodFirstSuffix) ELSE @,
        !.contributing_url = IF IsSome(repo.url) /\ @ = None
                             THEN Some(Unwrap(repo.url) \o ContributingSuffix) ELSE @]

\* GitHubBackend::enrich: without repo_url, or with a repo_url that is not a
\* GitHub one, the project is returned as it is; otherwise the repository
\* metadata and the FUNDING.yml channels are filled in when their fetch
\* succeeds.  Never an error.
github_enrich(project, env) ==
    IF project.repo_url = None THEN Returns(project)
    ELSE IF extract_github_owner_repo(Unwrap(project.repo_url)) = None
    THEN Returns(project)
    ELSE LET with_repo == IF env.gh_repo.err THEN project
                          ELSE FillFromRepo(project, env.gh_repo.val)
         IN Returns(IF env.gh_funding.err THEN with_repo
                    ELSE [with_repo EXCEPT
                             !.funding = MergeFunding(@, env.gh_funding.val, 1)])

\* LicenseClassifyBackend::enrich
license_classify_enrich(project) ==
    Returns(IF project.licenses # <<>>
            THEN [project EXCEPT !.is_open_source =
                     Some(\A i \in 1..Len(project.licenses) :
                             is_osi_approved(project.licenses[i]))]
            ELSE project)

\* "oc/b", "oc/o", "lp/b", "lp/o": the funding pages derived from the name.
PlatformUrl(platform, name) ==
    <<(IF platform = "Open Collective" THEN 111 ELSE 108),
      (IF platform = "Open Collective" THEN 99 ELSE 112),
      47,
      (IF name = "base" THEN 98 ELSE 111)>>

\* OpenCollectiveBackend::enrich and LiberapayBackend::enrich: nothing to do
\* when the platform's channel is there; an error when the HTTP client cannot
\* be built; the channel pushed when the request succeeds; the project as it
\* is otherwise.
platform_enrich(platform, project, env) ==
    IF \E i \in 1..Len(project.funding) : project.funding[i].platform = platform
    THEN Returns(project)
    ELSE IF ~env.client THEN Fails
    ELSE IF env.send = "success"
    THEN Returns([project EXCEPT !.funding =
                     Append(@, FundingChannel(platform,
                                              PlatformUrl(platform, project.name)))])
    ELSE Returns(project)

\* backend.enrich(&project) in the environment env.
enrich_in(backend, project, env) ==
    IF backend = "license_classify" THEN license_classify_enrich(project)
    ELSE IF backend = "github" THEN github_enrich(project, env)
    ELSE IF backend = "open_collective" THEN platform_enrich("Open Collective", project, env)
    ELSE platform_enrich("Liberapay", project, env)

\* backend.enrich(&enriched): the outcomes the backend can produce.
enrich(backend, project) == {enrich_in(backend, project, env) : env \in Envs}

\* The loop over packages filling url_to_project (entry().or_insert_with()).
RECURSIVE BuildUrlToProject(_, _, _)
BuildUrlToProject(pkgs, i, map) ==
    IF i > Len(pkgs) THEN map
    ELSE LET pkg == pkgs[i]
             normalized == normalize_url(Unwrap(pkg.url))
         IN IF IsSome(pkg.url) /\ normalized # <<>> /\ normalized \notin DOMAIN map
            THEN BuildUrlToProject(pkgs, i + 1,
                     MapInsert(map, normalized,
                         [UpstreamProject(pkg.name) EXCEPT !.repo_url = pkg.url,
                                                           !.licenses = pkg.licenses]))
            ELSE BuildUrlToProject(pkgs, i + 1, map)

\* Variant: the first failing backend ends the project's backend loop.
BackendStep_break(enriched, idx, n, out) ==
    IF out.err THEN [enriched |-> enriched, idx |-> n + 1]
    ELSE [enriched |-> merge_enrichment(enriched, out.val), idx |-> idx + 1]

\* One turn of `for backend in &backends`: Ok(result) is merged onto enriched,
\* Err leaves enriched as it is; the loop goes on to the next backend.
BackendStep(enriched, idx, n, out) ==
    IF out.err THEN [enriched |-> enriched, idx |-> idx + 1]
    ELSE [enriched |-> merge_enrichment(enriched, out.val), idx |-> idx + 1]

\* The installed packages of the runs: two packages share a url, one has no
\* url, one has a url that normalises to the empty string.
EnrichPackages ==
    {[name |-> "base", url |-> Some(GithubUrl), licenses |-> <<"MIT">>],
     [name |-> "other", url |-> Some(GithubUrl), licenses |-> <<>>],
     [name |-> "other", url |-> Some(<<117, 50>>), licenses |-> <<"MIT", "Proprietary">>],
     [name |-> "base", url |-> None, licenses |-> <<>>],
     [name |-> "other", url |-> Some(Slash), licenses |-> <<>>]}

\* The cache keys of the runs: the urls of the packages as they are written.
EnrichKeys == {GithubUrl, <<117, 50>>}

\* The project an earlier run left in the cache under a key.
CachedProject(project_url) ==
    [UpstreamProject("cached") EXCEPT !.repo_url = Some(project_url), !.stars = Some(5)]

\* What the table holds for a key when the run starts: nothing, or a row
\* written now or more than 7 days ago, whose data deserializes or not.
PriorRows(project_url, now) ==
    {{}} \cup
    {{[project_url |-> project_url, data |-> data, cached_at |-> to_rfc3339(at)]} :
        data \in {to_string(CachedProject(project_url)), CorruptData},
        at \in {0, now}}

\* Nothing, or a row written now whose data deserializes.
FreshRows(project_url, now) ==
    {{}, {[project_url |-> project_url, data |-> to_string(CachedProject(project_url)),
           cached_at |-> to_rfc3339(now)]}}

EnrichInit ==
    /\ clock = CacheTtlDays + 1
    /\ \E r1 \in PriorRows(GithubUrl, clock), r2 \in FreshRows(<<117, 50>>, clock) :
          cache = r1 \cup r2
    /\ saved = [k \in EnrichKeys |->
                  IF \E r \in cache : r.project_url = k /\ r.data # CorruptData
                  THEN Some([project |-> CachedProject(k),
                             at |-> parse_rfc3339((CHOOSE r \in cache : r.project_url = k).cached_at),
                             prev |-> "absent",
                             reads |-> 0])
                  ELSE None]
    /\ cOp = NoOp
    /\ \E n \in 0..MaxEnrichPkgs : ePkgs \in [1..n -> EnrichPackages]
    /\ \E gh_auth \in BOOLEAN : eBackends = active_backends(gh_auth)
    /\ ePc = "start"
    /\ eUrlToProject = <<>>
    /\ eTodo = <<>>
    /\ eEnriched = None
    /\ eIdx = 0
    /\ eMap = <<>>
    /\ eTrace = <<>>
    /\ eRet = None
    /\ NormIdle
    /\ GroupIdle
    /\ MergeIdle
    /\ TableIdle
    /\ BackendIdle

\* Variant: the cache never answers.
IsHit_never(got) == FALSE

\* if let Ok(Some(cached)) = storage.get_enrichment(cache_key)
IsHit(got) == ~got.err /\ IsSome(got.val)

\* From the call to the head of the loop: the backends are known, the unique
\* urls are collected and the HashMap fixes the order of the iteration.
EnrichStart ==
    /\ ePc = "start"
    /\ LET url_to_project == BuildUrlToProject(ePkgs, 1, <<>>)
       IN IF eBackends = <<>>
          THEN /\ eRet' = Some(Returns(<<>>))
               /\ ePc' = "done"
               /\ UNCHANGED <<eUrlToProject, eTodo>>
          ELSE /\ eUrlToProject' = url_to_project
               /\ eTodo' \in Orders(DOMAIN url_to_project)
               /\ ePc' = "loop"
               /\ eRet' = eRet
    /\ UNCHANGED <<ePkgs, eBackends, eEnriched, eIdx, eMap, eTrace, cacheVars, enrichRest>>

\* The head of the loop body: the cache is read; a project found there goes
\* to the map, anything else (nothing found, or an error) starts the backends.
CheckCache ==
    /\ ePc = "loop"
    /\ eTodo # <<>>
    /\ LET normalized_url == Head(eTodo)
           base_project == eUrlToProject[normalized_url]
           cache_key == UnwrapOr(base_project.repo_url, normalized_url)
           got == get_enrichment(cache, clock, cache_key)
       IN /\ cOp' = [op |-> "get", key |-> cache_key, ret |-> got]
          /\ eTrace' = Append(eTrace, [ev |-> "get", key |-> normalized_url,
                                       cache_key |-> cache_key, ret |-> got,
                                       corrupt |-> \E r \in cache :
                                                      /\ r.project_url = cache_key
                                                      /\ from_str(r.data).err,
                                       fresh |-> RowAge(cache, clock, cache_key) = "fresh"])
          /\ IF IsHit(got)
             THEN /\ eMap' = MapInsert(eMap, normalized_url, Unwrap(got.val))
                  /\ eTodo' = Tail(eTodo)
                  /\ UNCHANGED <<ePc, eEnriched, eIdx>>
             ELSE /\ eEnriched' = Some(base_project)
                  /\ eIdx' = 1
                  /\ ePc' = "backends"
                  /\ UNCHANGED <<eMap, eTodo>>
          /\ cache' = AfterRead(cache, clock, cache_key)
          /\ saved' = [saved EXCEPT ![cache_key] = CountRead(@, got)]
    /\ UNCHANGED <<ePkgs, eBackends, eUrlToProject, eRet, clock, enrichRest>>

\* One backend is run on enriched; its failure is a warning on stderr.
CallBackend ==
    /\ ePc = "backends"
    /\ eIdx <= Len(eBackends)
    /\ \E out \in enrich(eBackends[eIdx], Unwrap(eEnriched)) :
          LET step == BackendStep(Unwrap(eEnriched), eIdx, Len(eBackends), out)
              called == [ev |-> "enrich", key |-> Head(eTodo), backend |-> eBackends[eIdx],
                         arg |-> Unwrap(eEnriched), ret |-> out]
          IN /\ eEnriched' = Some(step.enriched)
             /\ eIdx' = step.idx
             /\ eTrace' = IF out.err
                          THEN eTrace \o <<called, [ev |-> "warn", kind |-> "backend",
                                                    key |-> Head(eTodo),
                                                    backend |-> eBackends[eIdx]]>>
                          ELSE Append(eTrace, called)
    /\ UNCHANGED <<ePkgs, eBackends, ePc, eUrlToProject, eTodo, eMap, eRet, cacheVars,
                   enrichRest>>

\* After the last backend: enriched is saved to the cache (a failure would be
\* a warning) and put in the map.
SaveToCache ==
    /\ ePc = "backends"
    /\ eIdx > Len(eBackends)
    /\ LET normalized_url == Head(eTodo)
           base_project == eUrlToProject[normalized_url]
           cache_key == UnwrapOr(base_project.repo_url, normalized_url)
           call == save_enrichment(cache, clock, cache_key, Unwrap(eEnriched))
           did == [ev |-> "save", key |-> normalized_url, cache_key |-> cache_key,
                   project |-> Unwrap(eEnriched), ret |-> call.ret]
       IN /\ cache' = call.table
          /\ saved' = [saved EXCEPT ![cache_key] =
                          IF call.ret.err THEN @
                          ELSE Some([project |-> Unwrap(eEnriched), at |-> clock,
                                     prev |-> RowAge(cache, clock, cache_key),
                                     reads |-> 0])]
          /\ cOp' = [op |-> "save", key |-> cache_key, project |-> Unwrap(eEnriched),
                     ret |-> call.ret]
          /\ eTrace' = IF call.ret.err
                       THEN eTrace \o <<did, [ev |-> "warn", kind |-> "save",
                                              key |-> normalized_url]>>
                       ELSE Append(eTrace, did)
          /\ eMap' = MapInsert(eMap, normalized_url, Unwrap(eEnriched))
    /\ eTodo' = Tail(eTodo)
    /\ ePc' = "loop"
    /\ eEnriched' = None
    /\ UNCHANGED <<ePkgs, eBackends, eUrlToProject, eIdx, eRet, clock, enrichRest>>

\* The loop is over: Ok(enrichment_map).
EnrichReturn ==
    /\ ePc = "loop"
    /\ eTodo = <<>>
    /\ eRet' = Some(Returns(eMap))
    /\ ePc' = "done"
    /\ UNCHANGED <<ePkgs, eBackends, eUrlToProject, eTodo, eEnriched, eIdx, eMap, eTrace,
                   cacheVars, enrichRest>>

EnrichNext ==
    \/ EnrichStart
    \/ CheckCache
    \/ CallBackend
    \/ SaveToCache
    \/ EnrichReturn

EnrichSpec == EnrichInit /\ [][EnrichNext]_vars

(***************************************************************************)
(* A single backend call, in every environment.                            *)
(***************************************************************************)
\* The projects handed to a backend: without repo_url, with a url that is not
\* a GitHub one, with a GitHub url; with or without stars, licences and a
\* funding channel of one of the platforms.
BackendProjects ==
    {[UpstreamProject("base") EXCEPT !.repo_url = r, !.stars = st,
                                     !.licenses = ls, !.funding = fs] :
        r \in {None, Some(<<117, 49>>), Some(GithubUrl)},
        st \in {None, Some(5)},
        ls \in {<<>>, <<"MIT">>, <<"Proprietary">>},
        fs \in {<<>>, GithubFunding,
                <<FundingChannel("Open Collective", PlatformUrl("Open Collective", "base"))>>,
                <<FundingChannel("Liberapay", PlatformUrl("Liberapay", "base"))>>}}

BackendInit ==
    /\ bBackend \in {Candidates[i] : i \in 1..Len(Candidates)}
    /\ bProject \in {Some(project) : project \in BackendProjects}
    /\ bEnv \in {Some(env) : env \in Envs}
    /\ bRet = None
    /\ NormIdle
    /\ GroupIdle
    /\ MergeIdle
    /\ CacheIdle
    /\ TableIdle
    /\ EnrichIdle

\* backend.enrich(&project)
CallEnrich ==
    /\ bRet = None
    /\ bRet' = Some(enrich_in(bBackend, Unwrap(bProject), Unwrap(bEnv)))
    /\ UNCHANGED <<bBackend, bProject, bEnv, backendRest>>

BackendNext == CallEnrich

BackendSpec == BackendInit /\ [][BackendNext]_vars

(***************************************************************************)
(* The whole program.                                                      *)
(***************************************************************************)
Init ==
    \/ NormInit
    \/ GroupInit
    \/ MergeInit
    \/ CacheInit
    \/ TableInit
    \/ EnrichInit
    \/ BackendInit

Next ==
    \/ NormNext
    \/ GroupNext
    \/ MergeNext
    \/ CacheNext
    \/ TableNext
    \/ EnrichNext
    \/ BackendNext

Spec == Init /\ [][Next]_vars

(***************************************************************************)
(* Properties of normalize_url (checked under NormSpec).                   *)
(***************************************************************************)

\* C1: normalize_url is idempotent: applying it to its own result gives the
\* same string again, for every input.
C1_NormalizeIdempotent ==
    \A i \in 2..Len(nOut) : nOut[i] = nOut[1]

\* C2: normalize_url is case-insensitive: two inputs that differ only in
\* letter case (scheme and "www." label included) normalize to the same key.
C2_NormalizeCaseInsensitive ==
    (nOut # <<>> /\ IsSome(nVarOut)) => nOut[1] = Unwrap(nVarOut)

\* C3 as stated: normalize_url equals the transform that trims whitespace,
\* strips ONE trailing "/", strips a leading "http://" or "https://", strips a
\* leading "www." and lowercases the remainder.
C3_OneTrailingSlash ==
    nOut # <<>> => nOut[1] = normalize_url_one_slash(nIn)

\* The transform stated by positions in the input: the result is the
\* lower-cased slice of url that starts after the leading whitespace, the
\* scheme and the "www." label and ends before the trailing run of "/" that
\* precedes the trailing whitespace.
RefTransform(url) ==
    LET n == Len(url)
        nonWs == {i \in 1..n : ~IsWhitespace(url[i])}
        first == IF nonWs = {} THEN n + 1
                 ELSE CHOOSE i \in nonWs : \A j \in nonWs : i <= j
        last == IF nonWs = {} THEN n
                ELSE CHOOSE i \in nonWs : \A j \in nonWs : j <= i
        body == {i \in first..last : url[i] # 47}
        stop == IF body = {} THEN first - 1
                ELSE CHOOSE i \in body : \A j \in body : j <= i
        At(k, lit) == /\ k + Len(lit) - 1 <= stop
                      /\ \A d \in 1..Len(lit) : url[k + d - 1] = lit[d]
        afterScheme == IF At(first, HttpsPrefix) THEN first + Len(HttpsPrefix)
                       ELSE IF At(first, HttpPrefix) THEN first + Len(HttpPrefix)
                       ELSE first
        start == IF At(afterScheme, WwwPrefix) THEN afterScheme + Len(WwwPrefix)
                 ELSE afterScheme
    IN  [i \in 1..(stop - start + 1) |-> LowerChar(url[start + i - 1])]

\* C3, amended: normalize_url equals the transform that trims whitespace,
\* strips EVERY trailing "/", strips a leading "https://" or "http://", strips
\* a leading "www." and lowercases the remainder.
C3_ReferenceTransform ==
    nOut # <<>> => nOut[1] = RefTransform(nIn)

\* C3 witness: an input with two trailing slashes has been normalized and both
\* slashes are gone.
C3_Witness ==
    /\ nOut # <<>>
    /\ Len(nIn) >= 3
    /\ nIn[Len(nIn)] = 47
    /\ nIn[Len(nIn) - 1] = 47
    /\ nOut[1] # <<>>
    /\ nOut[1][Len(nOut[1])] # 47

(***************************************************************************)
(* Properties of group_by_project (checked under GroupSpec).               *)
(***************************************************************************)
Returned == gState = "returned"

\* The distinct normalized urls of the input, and the packages of each in
\* input order.
Keys == {PkgKey(packages[i]) : i \in 1..Len(packages)}
Bucket(k) == SelectSeq([i \in 1..Len(packages) |-> i], LAMBDA i : PkgKey(packages[i]) = k)

\* The non-empty keys whose ancestor is a.
ChildrenOf(a) == {k \in Keys : k # <<>> /\ compute_ancestor(k) = Some(a)}
\* The ancestors (the empty one included) of the non-empty keys.
Ancestors == {Unwrap(compute_ancestor(k)) : k \in {x \in Keys : IsSome(compute_ancestor(x))}}

GroupIdx == 1..Len(groups)
\* s lists the elements of S once each, in ascending order.
IsSortedListOf(s, S) ==
    /\ SeqRange(s) = S
    /\ \A i, j \in 1..Len(s) : i < j => StrLess(s[i], s[j])
\* The number of times package i occurs in the packages of group g.
Occurrences(g, i) == Cardinality({n \in 1..Len(groups[g].packages) : groups[g].packages[n] = i})

RECURSIVE SumOver(_, _)
SumOver(f, S) ==
    IF S = {} THEN 0
    ELSE LET x == CHOOSE y \in S : TRUE IN f[x] + SumOver(f, S \ {x})

\* The merge of the children of ancestor a, as C4 describes it.
MergedUnder(a) ==
    /\ Cardinality({g \in GroupIdx : /\ groups[g].url = a
                                     /\ IsSortedListOf(groups[g].project_urls, ChildrenOf(a))}) = 1
    /\ \A k \in ChildrenOf(a) :
          ~\E g \in GroupIdx : groups[g].url = k /\ groups[g].project_urls = <<>>

\* C4 as stated: whenever two or more distinct non-empty keys share an
\* ancestor (whatever it is), one group keyed by the ancestor lists exactly
\* those keys, sorted, and none of them is the key of a standalone group.
C4_SiblingsMergedAnyAncestor ==
    Returned => \A a \in Ancestors : Cardinality(ChildrenOf(a)) >= 2 => MergedUnder(a)

\* C4, amended: the same, for keys that share a NON-EMPTY ancestor.
C4_SiblingsMerged ==
    Returned =>
        \A a \in Ancestors : (a # <<>> /\ Cardinality(ChildrenOf(a)) >= 2) => MergedUnder(a)

\* C4 witness: two keys with a common non-empty ancestor were grouped, and the
\* ancestor's group lists both.
C4_Witness ==
    /\ Returned
    /\ \E a \in Ancestors :
          /\ a # <<>>
          /\ Cardinality(ChildrenOf(a)) >= 2
          /\ \E g \in GroupIdx : groups[g].url = a /\ Len(groups[g].project_urls) >= 2

\* Key k is the key of exactly one standalone group, which holds its bucket.
Standalone(k) ==
    Cardinality({g \in GroupIdx : /\ groups[g].url = k
                                  /\ groups[g].project_urls = <<>>
                                  /\ groups[g].packages = Bucket(k)}) = 1

\* C5: a key that is the only child of its ancestor is not merged: no
\* ancestor group keyed by that ancestor exists and the key keeps a standalone
\* group with its packages; a key without "/" is never merged upward.
C5_NoMergeOnSingleChild ==
    Returned =>
        \A k \in Keys \ {<<>>} :
            LET anc == compute_ancestor(k)
            IN  /\ (IsSome(anc) /\ ChildrenOf(Unwrap(anc)) = {k}) =>
                      /\ Standalone(k)
                      /\ ~\E g \in GroupIdx : /\ groups[g].url = Unwrap(anc)
                                              /\ groups[g].project_urls # <<>>
                /\ (\A n \in 1..Len(k) : k[n] # 47) =>
                      /\ Standalone(k)
                      /\ ~\E g \in GroupIdx : k \in SeqRange(groups[g].project_urls)

\* C5 witness: the input held a key alone under its ancestor and a bare-domain
\* key, and both came back as standalone groups.
C5_Witness ==
    /\ Returned
    /\ \E k \in Keys : /\ IsSome(compute_ancestor(k))
                       /\ ChildrenOf(Unwrap(compute_ancestor(k))) = {k}
                       /\ Standalone(k)
    /\ \E k \in Keys \ {<<>>} : compute_ancestor(k) = None /\ Standalone(k)

AllPackages == [i \in 1..Len(packages) |-> i]

\* The normalized urls of the input by the reference transform ("" for a
\* package without url).
RefKeys ==
    {IF IsSome(packages[i].url) THEN RefTransform(Unwrap(packages[i].url)) ELSE <<>> :
        i \in 1..Len(packages)}

\* C6: when all packages of a non-empty list have the same normalized url,
\* exactly one group is returned; it holds all packages and no project_urls.
C6_SameUrlOneGroup ==
    (Returned /\ Cardinality(RefKeys) = 1) =>
        /\ Len(groups) = 1
        /\ groups[1].url \in RefKeys
        /\ groups[1].packages = AllPackages
        /\ groups[1].project_urls = <<>>

\* C6 witness: packages with different raw urls and one normalized url were
\* grouped into one group.
C6_Witness ==
    /\ Returned
    /\ Cardinality(RefKeys) = 1
    /\ <<>> \notin RefKeys
    /\ \E i, j \in 1..Len(packages) : packages[i].url # packages[j].url
    /\ Len(groups) = 1

RECURSIVE ConcatBuckets(_)
ConcatBuckets(keys) ==
    IF keys = <<>> THEN <<>> ELSE Bucket(Head(keys)) \o ConcatBuckets(Tail(keys))

\* C7: in every merged ancestor group, packages is the concatenation of the
\* child buckets in ascending child-key order (the order of project_urls).
C7_PackagesInChildKeyOrder ==
    Returned =>
        \A g \in GroupIdx :
            groups[g].project_urls # <<>> =>
                groups[g].packages = ConcatBuckets(groups[g].project_urls)

\* C8: the returned list is sorted ascending by group key, for every input.
C8_SortedByKey ==
    Returned => \A i, j \in GroupIdx : i < j => StrLeq(groups[i].url, groups[j].url)

\* C8 witness: three groups were returned, the no-url group among them.
C8_Witness ==
    /\ Returned
    /\ Len(groups) >= 3
    /\ groups[1].url = <<>>
    /\ groups[2].url # groups[3].url

\* gs is a list of ProjectGroup values over the input's packages.
IsGroupList(gs) ==
    \A g \in 1..Len(gs) :
        /\ DOMAIN gs[g] = {"url", "project_urls", "packages"}
        /\ SeqRange(gs[g].packages) \subseteq 1..Len(packages)

\* C9: group_by_project is total: it returns for every input; no groups for
\* the empty list; for a non-empty list without any url, exactly the group
\* keyed "" with no project_urls and all packages.
C9_Total ==
    /\ gState = "input" =>
          \A order \in Orders(Keys) :
              \A aorder \in Orders(DOMAIN BuildAncestorChildren(order, 1, <<>>)) :
                  IsGroupList(group_by_project(packages, order, aorder))
    /\ (Returned /\ packages = <<>>) => groups = <<>>
    /\ (Returned /\ packages # <<>> /\ \A i \in 1..Len(packages) : packages[i].url = None) =>
          groups = <<[url |-> <<>>, project_urls |-> <<>>, packages |-> AllPackages]>>

\* C9 witness: a list of several packages, none with a url, was grouped.
C9_Witness ==
    /\ Returned
    /\ Len(packages) >= 2
    /\ \A i \in 1..Len(packages) : packages[i].url = None
    /\ Len(groups) = 1

\* C10: every input package occurs exactly once in exactly one returned
\* group, so the group sizes sum to the number of packages.
C10_Partition ==
    Returned =>
        /\ \A i \in 1..Len(packages) :
              SumOver([g \in GroupIdx |-> Occurrences(g, i)], GroupIdx) = 1
        /\ \A g \in GroupIdx :
              \A n \in 1..Len(groups[g].packages) : groups[g].packages[n] \in 1..Len(packages)
        /\ SumOver([g \in GroupIdx |-> Len(groups[g].packages)], GroupIdx) = Len(packages)

\* C10 witness: a key was consumed as a child of its ancestor's group while
\* being itself the ancestor of another key of the input.
C10_Witness ==
    /\ Returned
    /\ \E k \in Keys :
          /\ \E g \in GroupIdx : k \in SeqRange(groups[g].project_urls)
          /\ ChildrenOf(k) # {}

(***************************************************************************)
(* Claims about merge_enrichment, checked under MergeSpec.                 *)
(***************************************************************************)
Merged == mState = "returned"

MergeResult == Unwrap(mResult).val

C12_UnsetFieldsFilled ==
    Merged =>
        \A f \in OptionFields :
            (mBase[f] = None /\ IsSome(mContrib[f])) => MergeResult[f] = mContrib[f]

\* Duplicates removed, first occurrence kept.
RECURSIVE Distinct(_)
Distinct(s) ==
    IF s = <<>> THEN <<>>
    ELSE LET front == Distinct(SubSeq(s, 1, Len(s) - 1))
             last == s[Len(s)]
         IN IF Contains(front, last) THEN front ELSE Append(front, last)

NoRepeat(s) == \A i, j \in 1..Len(s) : s[i] = s[j] => i = j

\* The elements of theirs that are not in mine, in the order of theirs.
RECURSIVE Without(_, _)
Without(theirs, mine) ==
    IF theirs = <<>> THEN <<>>
    ELSE LET front == Without(SubSeq(theirs, 1, Len(theirs) - 1), mine)
             last == theirs[Len(theirs)]
         IN IF Contains(mine, last) THEN front ELSE Append(front, last)

\* C13: the merged licences are the deduplicated union: the distinct licences
\* of base in base's order, then the contribution's licences that base does
\* not have, in the contribution's order, and no licence twice.
C13_LicensesDistinctUnion ==
    Merged =>
        /\ MergeResult.licenses =
              Distinct(mBase.licenses) \o Without(Distinct(mContrib.licenses), mBase.licenses)
        /\ NoRepeat(MergeResult.licenses)

\* The channels of theirs from position i on whose url is in none of seen and
\* in no earlier channel of theirs.
RECURSIVE NewByUrl(_, _, _)
NewByUrl(theirs, seen, i) ==
    IF i > Len(theirs) THEN <<>>
    ELSE IF theirs[i].url \in seen
         THEN NewByUrl(theirs, seen, i + 1)
         ELSE <<theirs[i]>> \o NewByUrl(theirs, seen \cup {theirs[i].url}, i + 1)

Urls(channels) == {channels[i].url : i \in 1..Len(channels)}

\* C14: the merged funding is the union deduplicated by url only: base's
\* channels in their order, then each channel of the contribution whose url
\* no channel already in the result has, so that the label seen first for a
\* url is the one kept.
C14_FundingUnionByUrl ==
    Merged =>
        LET rf == MergeResult.funding
            nb == Len(mBase.funding)
        IN /\ Len(rf) >= nb
           /\ SubSeq(rf, 1, nb) = mBase.funding
           /\ SubSeq(rf, nb + 1, Len(rf)) = NewByUrl(mContrib.funding, Urls(mBase.funding), 1)
           /\ \A i \in 1..Len(mContrib.funding) :
                 \E n \in 1..Len(rf) : rf[n].url = mContrib.funding[i].url
           /\ \A i, j \in (nb + 1)..Len(rf) : rf[i].url = rf[j].url => i = j

\* [X] merged with [X', Y], X' having X's url under another label, is [X, Y].
C14_Witness ==
    /\ Merged
    /\ Len(mBase.funding) = 1
    /\ Len(mContrib.funding) = 2
    /\ mContrib.funding[1].url = mBase.funding[1].url
    /\ mContrib.funding[1].platform # mBase.funding[1].platform
    /\ mContrib.funding[2].url # mBase.funding[1].url
    /\ MergeResult.funding = <<mBase.funding[1], mContrib.funding[2]>>

(***************************************************************************)
(* Claims about the enrichment cache, checked under CacheSpec.             *)
(***************************************************************************)
RowsOf(project_url) == {r \in cache : r.project_url = project_url}

\* The row save_enrichment wrote for the call recorded in s.
SavedRow(project_url, s) ==
    [project_url |-> project_url, data |-> to_string(s.project),
     cached_at |-> to_rfc3339(s.at)]

\* C15: an entry written at t0 is returned by get_enrichment while
\* t - t0 <= 7 days and hidden (None) once t - t0 > 7 days; the row is still
\* in the table after the read, which never deletes.
C15_TtlSevenDays ==
    (cOp.op = "get" /\ IsSome(saved[cOp.key])) =>
        LET s == Unwrap(saved[cOp.key])
        IN /\ clock - s.at <= 7 => cOp.ret = Returns(Some(s.project))
           /\ clock - s.at > 7 => cOp.ret = Returns(None)
           /\ SavedRow(cOp.key, s) \in cache

\* A read 8 days after the save returns None and the row is still there.
C15_Witness ==
    /\ cOp.op = "get"
    /\ IsSome(saved[cOp.key])
    /\ clock - Unwrap(saved[cOp.key]).at = 8
    /\ cOp.ret = Returns(None)
    /\ SavedRow(cOp.key, Unwrap(saved[cOp.key])) \in cache

\* C16: save_enrichment is an unconditional upsert that refreshes cached_at:
\* the table has at most one row per key, the row of the key after a save is
\* the saved project stamped with the time of the save, and a read within 7
\* days of the most recent save returns that project whether the key's row
\* was absent, fresh or stale before the save.
C16_SaveIsUpsert ==
    /\ \A k \in CacheKeys : Cardinality(RowsOf(k)) <= 1
    /\ cOp.op = "save" =>
          /\ ~cOp.ret.err
          /\ RowsOf(cOp.key) = {[project_url |-> cOp.key,
                                 data |-> to_string(cOp.project),
                                 cached_at |-> to_rfc3339(clock)]}
    /\ \A prev \in {"absent", "fresh", "stale"} :
          (/\ cOp.op = "get"
           /\ IsSome(saved[cOp.key])
           /\ Unwrap(saved[cOp.key]).prev = prev
           /\ clock - Unwrap(saved[cOp.key]).at <= 7)
          => cOp.ret = Returns(Some(Unwrap(saved[cOp.key]).project))

\* A read returns the project saved over a stale row, the day after the save.
C16_Witness ==
    /\ cOp.op = "get"
    /\ IsSome(saved[cOp.key])
    /\ Unwrap(saved[cOp.key]).prev = "stale"
    /\ clock - Unwrap(saved[cOp.key]).at = 1
    /\ cOp.ret = Returns(Some(Unwrap(saved[cOp.key]).project))
    /\ Cardinality(RowsOf(cOp.key)) = 1

NoUrl(project) == project.repo_url = None /\ project.homepage = None

\* C19: a project with neither repo_url nor homepage cannot be cached or
\* merged: save_enrichment of such a project and merge_enrichment onto such a
\* project fail with an error.
C19_NoUrlRejected ==
    /\ (cOp.op = "save" /\ NoUrl(cOp.project)) => cOp.ret.err
    /\ (Merged /\ NoUrl(mBase)) => Unwrap(mResult).err

(***************************************************************************)
(* Claims about table projects, checked under TableSpec.                   *)
(***************************************************************************)
\* The key the data model gives a project: repo_url, else homepage.
IdentityKey(project) ==
    IF IsSome(project.repo_url) THEN project.repo_url ELSE project.homepage

ProjectRows(url) == {r \in pTable : r.url = url}

\* C20: save_project keys the project by repo_url, falling back to homepage,
\* and upserts: the table has at most one row per key and that row reads back
\* as the last project saved under the key; a project with neither URL is
\* refused with an error and the table is left as it was.
C20_SaveProjectUpsert ==
    /\ \A url \in UrlValues :
          /\ Cardinality(ProjectRows(url)) <= 1
          /\ get_project(pTable, url) = Returns(pSaved[url])
    /\ (pOp.op = "save" /\ ~NoUrl(pOp.project)) =>
          /\ ~pOp.ret.err
          /\ get_project(pTable, Unwrap(IdentityKey(pOp.project))) =
                Returns(Some(pOp.project))
          /\ \A url \in UrlValues \ {Unwrap(IdentityKey(pOp.project))} :
                ProjectRows(url) = {r \in pOp.before : r.url = url}
    /\ (pOp.op = "save" /\ NoUrl(pOp.project)) =>
          /\ pOp.ret.err
          /\ pTable = pOp.before

\* A project without repo_url, with 12 stars, is saved under its homepage,
\* over the row another project left under that key.
C20_Witness ==
    /\ pOp.op = "save"
    /\ pOp.project.repo_url = None
    /\ IsSome(pOp.project.homepage)
    /\ pOp.project.stars = Some(12)
    /\ \E r \in pOp.before :
          /\ r.url = Unwrap(pOp.project.homepage)
          /\ r.name # pOp.project.name
          /\ r.repo_url = pOp.project.homepage
    /\ Cardinality(ProjectRows(Unwrap(pOp.project.homepage))) = 1
    /\ get_project(pTable, Unwrap(pOp.project.homepage)) = Returns(Some(pOp.project))

(***************************************************************************)
(* Claims about enrich_packages, checked under EnrichSpec.                 *)
(***************************************************************************)
\* The backend calls made for a project, in the order they were made.
EnrichEvents(k) == SelectSeq(eTrace, LAMBDA e : e.ev = "enrich" /\ e.key = k)

SaveEvents(k) == SelectSeq(eTrace, LAMBDA e : e.ev = "save" /\ e.key = k)

\* The projects of the run: the non-empty normalised urls of the packages.
ProjectKeys ==
    {normalize_url(Unwrap(ePkgs[i].url)) :
        i \in {j \in 1..Len(ePkgs) : IsSome(ePkgs[j].url)}} \ {<<>>}

\* C17: a failing backend is isolated: it contributes nothing to the
\* project's record, the backends after it are still run, each on the record
\* accumulated so far, the remaining projects are processed and the call
\* returns Ok with an entry for every project.
C17_BackendFailureIsolated ==
    /\ \A k \in DOMAIN eUrlToProject :
          SaveEvents(k) # <<>> =>
              LET es == EnrichEvents(k)
                  n == Len(eBackends)
                  After(i) == IF i = n THEN SaveEvents(k)[1].project ELSE es[i + 1].arg
              IN /\ Len(es) = n
                 /\ \A i \in 1..n : es[i].backend = eBackends[i]
                 /\ es[1].arg = eUrlToProject[k]
                 /\ \A i \in 1..n :
                       After(i) = IF es[i].ret.err THEN es[i].arg
                                  ELSE merge_enrichment(es[i].arg, es[i].ret.val)
                 /\ eMap[k] = SaveEvents(k)[1].project
    /\ ePc = "done" =>
          /\ IsSome(eRet)
          /\ ~Unwrap(eRet).err
          /\ DOMAIN Unwrap(eRet).val = ProjectKeys

\* open_collective failed for the first of two projects; liberapay was then
\* run on the same record and added its channel; the call returned both.
C17_Witness ==
    /\ ePc = "done"
    /\ Cardinality(DOMAIN Unwrap(eRet).val) = 2
    /\ \E i \in 1..Len(eTrace) : \E j \in (i + 1)..Len(eTrace) :
       \E m \in (j + 1)..Len(eTrace) :
          /\ eTrace[i].ev = "enrich"
          /\ eTrace[i].backend = "open_collective"
          /\ eTrace[i].ret.err
          /\ eTrace[j].ev = "enrich"
          /\ eTrace[j].backend = "liberapay"
          /\ eTrace[j].key = eTrace[i].key
          /\ eTrace[j].arg = eTrace[i].arg
          /\ ~eTrace[j].ret.err
          /\ eTrace[j].ret.val # eTrace[j].arg
          /\ eTrace[m].ev = "save"
          /\ eTrace[m].key # eTrace[i].key

\* C18: cache corruption is never silent: get_enrichment answers a blob that
\* does not deserialize with an error, not with None, and enrich_packages
\* emits a warning when it goes on and treats the entry as a miss.
C18_CorruptionNotSilent ==
    \A i \in 1..Len(eTrace) :
        eTrace[i].ev = "get" =>
            /\ eTrace[i].corrupt => eTrace[i].ret.err
            /\ (eTrace[i].ret.err /\ i < Len(eTrace)) => eTrace[i + 1].ev = "warn"

(***************************************************************************)
(* Schema evolution of the cached blobs, checked under CacheSpec.          *)
(***************************************************************************)
\* The project a blob stands for when every absent member counts as unset:
\* None for an optional field, empty for the name and the lists.
UnsetAbsent(data) ==
    [name |-> IF data.name[1] = "val" THEN data.name[2] ELSE "",
     repo_url |-> IF data.repo_url[1] = "val" THEN Some(data.repo_url[2]) ELSE None,
     homepage |-> IF data.homepage[1] = "val" THEN Some(data.homepage[2]) ELSE None,
     licenses |-> IF data.licenses[1] = "val" THEN data.licenses[2] ELSE <<>>,
     funding |-> IF data.funding[1] = "val" THEN data.funding[2] ELSE <<>>,
     bug_tracker |-> IF data.bug_tracker[1] = "val" THEN Some(data.bug_tracker[2]) ELSE None,
     contributing_url |->
        IF data.contributing_url[1] = "val" THEN Some(data.contributing_url[2]) ELSE None,
     is_open_source |->
        IF data.is_open_source[1] = "val" THEN Some(data.is_open_source[2]) ELSE None,
     documentation_url |->
        IF data.documentation_url[1] = "val" THEN Some(data.documentation_url[2]) ELSE None,
     good_first_issues_url |->
        IF data.good_first_issues_url[1] = "val" THEN Some(data.good_first_issues_url[2])
        ELSE None,
     stars |-> IF data.stars[1] = "val" THEN Some(data.stars[2]) ELSE None]

\* C21: cached blobs tolerate additive schema evolution: a read of a fresh
\* entry whose blob lacks any subset of the project's fields returns the
\* project with each absent field unset (None or empty), never an error.
C21_AbsentFieldsUnset ==
    cOp.op = "get" =>
        \A r \in RowsOf(cOp.key) :
            clock - parse_rfc3339(r.cached_at) <= 7 =>
                cOp.ret = Returns(Some(UnsetAbsent(r.data)))

(***************************************************************************)
(* Claims about the backends, checked under BackendSpec.                   *)
(***************************************************************************)
Enriched == IsSome(bRet)

HasChannelOf(project, platform) ==
    \E i \in 1..Len(project.funding) : project.funding[i].platform = platform

\* The network or subprocess call made inside enrich failed: a gh api call
\* for a GitHub repository, or an HTTP request that got no response.
CallFailed ==
    LET project == Unwrap(bProject)
        env == Unwrap(bEnv)
    IN \/ /\ bBackend = "github"
          /\ IsSome(project.repo_url)
          /\ IsSome(extract_github_owner_repo(Unwrap(project.repo_url)))
          /\ (env.gh_repo.err \/ env.gh_funding.err)
       \/ /\ bBackend = "open_collective"
          /\ ~HasChannelOf(project, "Open Collective")
          /\ env.client
          /\ env.send = "error"
       \/ /\ bBackend = "liberapay"
          /\ ~HasChannelOf(project, "Liberapay")
          /\ env.client
          /\ env.send = "error"

\* C22: every backend signals an unrecoverable failure as an error: when the
\* network or subprocess call made inside enrich fails, enrich returns Err,
\* never Ok with an unchanged or partially filled project.
C22_FailureIsErr ==
    (Enriched /\ CallFailed) => Unwrap(bRet).err

(***************************************************************************)
(* Claims about the backend pipeline of enrich_packages (EnrichSpec).      *)
(***************************************************************************)
IsPrefix(a, b) == Len(a) <= Len(b) /\ SubSeq(b, 1, Len(a)) = a

\* later keeps what earlier has: the scalar fields that are set, and the
\* lists as prefixes.
KeepsAll(earlier, later) ==
    /\ later.name = earlier.name
    /\ \A f \in OptionFields : IsSome(earlier[f]) => later[f] = earlier[f]
    /\ IsPrefix(earlier.licenses, later.licenses)
    /\ IsPrefix(earlier.funding, later.funding)

\* The states of the working record of project k, in order: what each backend
\* was given, then what was saved or, while its backends run, what it is now.
RecordStates(k) ==
    LET es == EnrichEvents(k)
        given == [i \in 1..Len(es) |-> es[i].arg]
    IN IF SaveEvents(k) # <<>> THEN Append(given, SaveEvents(k)[1].project)
       ELSE IF ePc = "backends" /\ Head(eTodo) = k THEN Append(given, Unwrap(eEnriched))
       ELSE given

\* C23: the pipeline is monotonic over the whole backend sequence: a scalar
\* field of the working record, once set, keeps its value to the end, and
\* licenses and funding only grow, each earlier state being a prefix of
\* every later one.
C23_PipelineMonotonic ==
    \A k \in DOMAIN eUrlToProject :
        LET states == RecordStates(k)
        IN \A i \in 1..Len(states) : \A j \in i..Len(states) :
              KeepsAll(states[i], states[j])

\* A project went through four backends: license_classify set is_open_source,
\* github set the stars and added a licence after the package's one, and
\* two backends added a funding channel each; all of it is in what was saved.
C23_Witness ==
    \E k \in DOMAIN eUrlToProject :
        LET states == RecordStates(k)
        IN /\ SaveEvents(k) # <<>>
           /\ Len(states) = 5
           /\ states[1].is_open_source = None
           /\ IsSome(states[2].is_open_source)
           /\ states[2].stars = None
           /\ states[3].stars = Some(100)
           /\ states[2].licenses = <<"MIT">>
           /\ states[3].licenses = <<"MIT", "GPL-3.0">>
           /\ Len(states[3].funding) = 1
           /\ Len(states[5].funding) = 2
           /\ states[5].is_open_source = states[2].is_open_source
           /\ states[5].stars = Some(100)

\* The positions in the trace of the events of a kind about project k.
EventsAt(kind, k) == {i \in 1..Len(eTrace) : eTrace[i].ev = kind /\ eTrace[i].key = k}

\* Every save of a project comes after a call of each active backend for it.
SaveAfterAllBackends ==
    \A k \in DOMAIN eUrlToProject :
        \A m \in EventsAt("save", k) :
            /\ ~\E i \in EventsAt("get", k) : eTrace[i].fresh /\ ~eTrace[i].corrupt
            /\ \A b \in 1..Len(eBackends) :
                  \E i \in EventsAt("enrich", k) : i < m /\ eTrace[i].backend = eBackends[b]
            /\ \A i \in EventsAt("enrich", k) : i < m

\* C24 as stated: the cache is consulted before any backend and updated
\* after: for a project whose cache key has a fresh entry no backend is
\* invoked and the cached project is the one placed in the map; for a
\* project without a fresh entry, save_enrichment is called for its key only
\* after every active backend has been tried.
C24_CacheBeforeBackends ==
    /\ \A k \in DOMAIN eUrlToProject :
          \A i \in EventsAt("get", k) :
              eTrace[i].fresh =>
                  /\ EventsAt("enrich", k) = {}
                  /\ EventsAt("save", k) = {}
    /\ SaveAfterAllBackends

\* C24, amended: the same for a project whose cache key has a fresh entry
\* that deserializes; a fresh entry that does not deserialize is treated as
\* no entry.
C24_CacheBeforeBackendsValid ==
    /\ \A k \in DOMAIN eUrlToProject :
          \A i \in EventsAt("get", k) :
              /\ i = 1 \/ eTrace[i - 1].key # k
              /\ (eTrace[i].fresh /\ ~eTrace[i].corrupt) =>
                    /\ EventsAt("enrich", k) = {}
                    /\ EventsAt("save", k) = {}
                    /\ k \in DOMAIN eMap
                    /\ eMap[k] = Unwrap(saved[eTrace[i].cache_key]).project
              /\ (~eTrace[i].fresh \/ eTrace[i].corrupt) => k \notin DOMAIN eMap \/
                    EventsAt("save", k) # {}
    /\ SaveAfterAllBackends

\* One project was served from its fresh entry, without any backend call;
\* the other, whose entry was stale, was run through every backend and then
\* saved.
C24_Witness ==
    /\ ePc = "done"
    /\ \E k1, k2 \in DOMAIN eUrlToProject :
          /\ \E i \in EventsAt("get", k1) : eTrace[i].fresh /\ ~eTrace[i].corrupt
          /\ EventsAt("enrich", k1) = {}
          /\ eMap[k1].name = "cached"
          /\ \E i \in EventsAt("get", k2) : ~eTrace[i].fresh /\ ~eTrace[i].ret.err
          /\ Cardinality(EventsAt("enrich", k2)) = Len(eBackends)
          /\ EventsAt("save", k2) # {}
          /\ \E r \in cache : r.project_url = GithubUrl /\ r.data = to_string(eMap[k2])

\* The fixed priority order of the backends.
PriorityOrder == <<"license_classify", "github", "open_collective", "liberapay">>

\* The names of the backends called for project k, in the order of the calls.
BackendsCalled(k) ==
    LET es == EnrichEvents(k) IN [i \in 1..Len(es) |-> es[i].backend]

\* C25: backends run strictly in priority order and one project at a time:
\* the active backends are the available ones in the order license_classify,
\* github, open_collective, liberapay; for each cache-miss project each
\* active backend is invoked exactly once in that order, and all backends of
\* one project are finished before any backend is invoked for the next.
C25_PriorityOrder ==
    /\ ePc # "idle" =>
          eBackends \in {PriorityOrder,
                         <<"license_classify", "open_collective", "liberapay">>}
    /\ \A k \in DOMAIN eUrlToProject :
          /\ IsPrefix(BackendsCalled(k), eBackends)
          /\ EventsAt("save", k) # {} => BackendsCalled(k) = eBackends
          /\ \A i, j \in EventsAt("enrich", k) :
                \A m \in i..j : eTrace[m].ev = "enrich" => eTrace[m].key = k
          /\ \A i \in EventsAt("enrich", k) :
                \A k2 \in DOMAIN eUrlToProject \ {k} :
                    \/ \A m \in EventsAt("enrich", k2) : m < i => EventsAt("save", k2) # {}
                    \/ EventsAt("enrich", k2) = {}

\* Two cache-miss projects, four active backends: eight calls, the four of
\* one project in priority order, then the four of the other.
C25_Witness ==
    /\ ePc = "done"
    /\ eBackends = PriorityOrder
    /\ \E k1, k2 \in DOMAIN eUrlToProject :
          /\ k1 # k2
          /\ BackendsCalled(k1) = PriorityOrder
          /\ BackendsCalled(k2) = PriorityOrder
          /\ \A i \in EventsAt("enrich", k1) : \A j \in EventsAt("enrich", k2) : i < j

\* C26: group keys are unique in the output of group_by_project: no two
\* returned groups have the same url, also when a normalized url of the
\* input is the ancestor of two or more other normalized urls.
C26_GroupKeysUnique ==
    Returned =>
        \A g, h \in GroupIdx : groups[g].url = groups[h].url => g = h

\* The count the reports show: the packages whose url is None.
packages_without_url == Cardinality({i \in 1..Len(packages) : packages[i].url = None})

\* The number of packages in the returned groups keyed "".
NoUrlBucketSize ==
    SumOver([g \in GroupIdx |-> IF groups[g].url = <<>> THEN Len(groups[g].packages) ELSE 0],
            GroupIdx)

\* C27: the no-url bucket and the no-url count agree: the number of packages
\* in the group keyed "" equals the number of packages whose url is absent,
\* also for packages whose url is present but normalizes to "".
C27_NoUrlBucketMatchesCount ==
    Returned => NoUrlBucketSize = packages_without_url

\* A backend returned Err for project k during the run.
BackendFailed(k) == \E i \in EventsAt("enrich", k) : eTrace[i].ret.err

\* What a run started at day `now` with the same packages decides for the
\* project cached under cache_key: TRUE when it takes the cached record and
\* invokes no backend.
LaterRunServesCache(cache_key, now) == IsHit(get_enrichment(cache, now, cache_key))

\* C28: a failed enrichment is not cached as a complete result: when a
\* backend returned an error for a project during enrich_packages, a later
\* run within 7 days invokes the backends for that project again instead of
\* serving the record from the cache.
C28_FailedNotServedFromCache ==
    ePc = "done" =>
        \A k \in DOMAIN eUrlToProject :
            BackendFailed(k) =>
                \A i \in EventsAt("save", k) :
                    \A now \in clock..(clock + CacheTtlDays) :
                        ~LaterRunServesCache(eTrace[i].cache_key, now)

\* C29: reads do not extend an entry's life: however often an entry was
\* read since its last write, by get_enrichment or by a cache hit of
\* enrich_packages, its row still holds the data and the cached_at of that
\* write, and a read returns the project while at most 7 days have passed
\* since the write and None afterwards.
C29_ReadsDoNotRefresh ==
    \A k \in DOMAIN saved :
        IsSome(saved[k]) =>
            LET s == Unwrap(saved[k])
            IN /\ RowsOf(k) = {SavedRow(k, s)}
               /\ (cOp.op = "get" /\ cOp.key = k) =>
                     cOp.ret = IF clock - s.at > CacheTtlDays THEN Returns(None)
                               ELSE Returns(Some(s.project))

\* An entry was read with success at least MaxReads times after its write;
\* 8 days after the write a read returns None and the row is as written.
C29_Witness ==
    /\ cOp.op = "get"
    /\ IsSome(saved[cOp.key])
    /\ Unwrap(saved[cOp.key]).reads = MaxReads
    /\ clock - Unwrap(saved[cOp.key]).at = CacheTtlDays + 1
    /\ cOp.ret = Returns(None)
    /\ RowsOf(cOp.key) = {SavedRow(cOp.key, Unwrap(saved[cOp.key]))}

\* A contribution with no optional field set and no licence or channel.
IsEmptyContribution(c) ==
    /\ \A f \in OptionFields : c[f] = None
    /\ c.licenses = <<>>
    /\ c.funding = <<>>

\* C30: merge_enrichment is idempotent in its contribution and has the empty
\* record as a neutral element: merge(merge(b, c), c) = merge(b, c),
\* merge(b, b) = b, and the merge of a contribution with no optional field
\* set and empty licenses and funding returns b unchanged.
C30_MergeIdempotent ==
    Merged =>
        /\ MergeResult = merge_enrichment(mBase, mContrib)
        /\ merge_enrichment(MergeResult, mContrib) = MergeResult
        /\ merge_enrichment(mBase, mBase) = mBase
        /\ merge_enrichment(MergeResult, MergeResult) = MergeResult
        /\ IsEmptyContribution(mContrib) => MergeResult = mBase

\* The contribution added a licence and a channel to a base that has a
\* licence of its own; merging it a second time changes nothing.
C30_Witness ==
    /\ Merged
    /\ Len(mBase.licenses) = 1
    /\ Len(mContrib.licenses) = 1
    /\ mBase.licenses[1] # mContrib.licenses[1]
    /\ MergeResult.licenses = <<mBase.licenses[1], mContrib.licenses[1]>>
    /\ mBase.funding = <<>>
    /\ Len(MergeResult.funding) = 1
    /\ merge_enrichment(MergeResult, mContrib) = MergeResult

====
